---- MODULE Spec2Model ----
(***************************************************************************)
(* git-fabric/k8s: the tool dispatcher (bin/cli.js), the tool catalog      *)
(* (dist/app.js) and the normalization adapter (adapters/env.ts).          *)
(*                                                                         *)
(* One request is followed from the dispatcher through the tool's execute  *)
(* function and the adapter method to the raw cluster reads it issues,     *)
(* and back to the result envelope.  The raw cluster client is the         *)
(* environment: every read it is asked for settles with a body or with an  *)
(* error, in any order.                                                    *)
(***************************************************************************)
EXTENDS Integers, Sequences, FiniteSets, TLC

VARIABLES
    pc,        \* "idle" | "awaiting" | "done": where the request handler is
    req,       \* the request being served: [kind, name, args]
    reads,     \* the raw cluster reads the invocation issued, in issue order
    outcome,   \* how the awaited operation settled: Resolved(v) | Rejected(e)
    envelope,  \* what the handler returned to the transport
    escaped,   \* TRUE when an exception crossed the handler boundary
    start,     \* Date.now() read when the health probe began
    now,       \* Date.now() read when the awaited operation settled
    peer       \* a second invocation served at the same time:
               \* [pc, req, reads, outcome, envelope, now]

vars == <<pc, req, reads, outcome, envelope, escaped, start, now, peer>>

(***************************************************************************)
(* Optional values: a field that may be absent (undefined) in a raw record *)
(* or in the argument mapping.  a?.b ?? d is OrElse(b, d): an absent       *)
(* parent object and an absent leaf give the same default, so raw records  *)
(* are kept flat, one optional leaf per path the code reads.               *)
(***************************************************************************)
None == [def |-> FALSE]
Some(x) == [def |-> TRUE, v |-> x]
OrElse(o, d) == IF o.def THEN o.v ELSE d

\* JavaScript truthiness of an optional string: undefined and '' are falsy.
Truthy(o) == o.def /\ o.v # ""

(***************************************************************************)
(* The raw cluster client.  A call names the client method, the namespace  *)
(* and resource name it is given ("" when the method takes none) and what  *)
(* else it is given.  A read is a call with its state: "pending", "ok"     *)
(* with the response body, or "err" with the error it rejected with.       *)
(***************************************************************************)
NoExtra == "-"
Call(api, ns, name, extra) == [api |-> api, ns |-> ns, name |-> name, extra |-> extra]
NoVal == "-"
Pending(c) == [call |-> c, st |-> "pending", val |-> NoVal]

Resolved(v) == [ok |-> TRUE, val |-> v]
Rejected(e) == [ok |-> FALSE, err |-> e]

(***************************************************************************)
(* Text the code builds from numbers is a sequence of characters, so that  *)
(* its form (digits, sign, separators) can be examined.                    *)
(***************************************************************************)
DigitChars == <<"0", "1", "2", "3", "4", "5", "6", "7", "8", "9">>

RECURSIVE NatStr(_)
NatStr(n) ==
    IF n < 10 THEN <<DigitChars[n + 1]>>
    ELSE NatStr(n \div 10) \o <<DigitChars[(n % 10) + 1]>>

\* `${n}` for an integer n: a minus sign, then the digits.
NumStr(n) == IF n < 0 THEN <<"-">> \o NatStr(-n) ELSE NatStr(n)

\* a.join(sep) for a sequence of character sequences
RECURSIVE Join(_, _)
Join(ss, sep) ==
    IF Len(ss) = 0 THEN <<>>
    ELSE IF Len(ss) = 1 THEN ss[1]
    ELSE ss[1] \o sep \o Join(Tail(ss), sep)

\* A text is the empty string when it has no characters: '' is falsy.
IsEmptyText(s) == \A i \in 1..Len(s) : s[i] = ""

\* Math.floor(a / b) for b > 0
FloorDiv(a, b) == IF a >= 0 THEN a \div b ELSE -(((-a) + b - 1) \div b)

\* a % b in JavaScript: the remainder takes the sign of the dividend
JsRem(a, b) == IF a >= 0 THEN a % b ELSE -((-a) % b)

MsPerDay == 86400000
MsPerHour == 3600000
MsPerMinute == 60000

Unknown_age == <<"u", "n", "k", "n", "o", "w", "n">>

\* age(date) evaluated when Date.now() is t; date is an optional instant (ms)
age(date, t) ==
    IF ~date.def THEN Unknown_age
    ELSE LET ms == t - date.v
             d == FloorDiv(ms, MsPerDay)
             h == FloorDiv(JsRem(ms, MsPerDay), MsPerHour)
             m == FloorDiv(JsRem(ms, MsPerHour), MsPerMinute)
         IN  IF d > 0 THEN NumStr(d) \o <<"d">> \o NumStr(h) \o <<"h">>
             ELSE IF h > 0 THEN NumStr(h) \o <<"h">> \o NumStr(m) \o <<"m">>
             ELSE NumStr(m) \o <<"m">>

(***************************************************************************)
(* Sequence helpers with the semantics of the Array methods the code uses. *)
(***************************************************************************)
Map(s, F(_)) == [i \in 1..Len(s) |-> F(s[i])]

Count(s, P(_)) == Cardinality({i \in 1..Len(s) : P(s[i])})

RECURSIVE SumSeq(_)
SumSeq(s) == IF Len(s) = 0 THEN 0 ELSE s[1] + SumSeq(Tail(s))

\* s.reduce((sum, x) => sum + F(x), 0)
SumOf(s, F(_)) == SumSeq(Map(s, F))

\* s.find(P): the first element satisfying P, as an optional value
Find(s, P(_)) ==
    IF \E i \in 1..Len(s) : P(s[i])
    THEN Some(s[CHOOSE i \in 1..Len(s) : P(s[i]) /\ \A j \in 1..(i - 1) : ~P(s[j])])
    ELSE None

\* s.slice(0, end): a negative end counts from the end of the array
Slice0(s, end) ==
    LET n == Len(s)
        k == IF end < 0 THEN (IF n + end < 0 THEN 0 ELSE n + end)
             ELSE (IF end > n THEN n ELSE end)
    IN  SubSeq(s, 1, k)

(***************************************************************************)
(* Pods.  A raw pod is                                                     *)
(*   [namespace, name, creationTimestamp, nodeName, podIP, phase,          *)
(*    message, containerStatuses, conditions]        (all optional)        *)
(* and a raw container status is                                           *)
(*   [name, image, ready, restartCount, running, waiting, terminated]      *)
(* where ready and restartCount are optional, running is the presence of   *)
(* state.running, and waiting / terminated are the optional sub-objects    *)
(* [reason, message] / [reason].                                           *)
(***************************************************************************)
\* a variant that takes a container without a ready field for ready
IsReady_UnlessFalse(c) == ~c.ready.def \/ c.ready.v

IsReady(c) == c.ready.def /\ c.ready.v
RestartsOf(c) == OrElse(c.restartCount, 0)

\* a variant that renders the two counts the other way round
ReadyRatio_Swapped(cs) == NumStr(Len(cs)) \o <<"/">> \o NumStr(Count(cs, IsReady))

\* `${ready}/${cs.length}`
ReadyRatio(cs) == NumStr(Count(cs, IsReady)) \o <<"/">> \o NumStr(Len(cs))

PodSummary(pod, t) ==
    LET cs == OrElse(pod.containerStatuses, <<>>)
    IN  [namespace |-> OrElse(pod.namespace, ""),
         name |-> OrElse(pod.name, ""),
         status |-> OrElse(pod.phase, "Unknown"),
         ready |-> ReadyRatio(cs),
         restarts |-> SumOf(cs, RestartsOf),
         age |-> age(pod.creationTimestamp, t),
         node |-> pod.nodeName]

RestartThreshold == 5

\* a variant that counts a container at the threshold as restarting
HighRestarts_AtThreshold(c) == RestartsOf(c) >= RestartThreshold

HighRestarts(c) == RestartsOf(c) > RestartThreshold
NotReady(c) == ~IsReady(c)

\* the predicate of getPodProblems' filter
IsProblem(pod) ==
    IF pod.phase = Some("Running") \/ pod.phase = Some("Succeeded")
    THEN LET statuses == OrElse(pod.containerStatuses, <<>>)
             highRestarts == \E i \in 1..Len(statuses) : HighRestarts(statuses[i])
             notReady == \E i \in 1..Len(statuses) : NotReady(statuses[i])
         IN  highRestarts \/ (notReady /\ pod.phase = Some("Running"))
    ELSE pod.phase = Some("Failed") \/ pod.phase = Some("Pending")
            \/ pod.phase = Some("Unknown")

IsWaiting(c) == c.waiting.def
IsFalseCondition(c) == c.status = "False"

PodProblem(pod) ==
    LET statuses == OrElse(pod.containerStatuses, <<>>)
        waiting == Find(statuses, IsWaiting)
        cond == Find(OrElse(pod.conditions, <<>>), IsFalseCondition)
    IN  [namespace |-> OrElse(pod.namespace, ""),
         name |-> OrElse(pod.name, ""),
         status |-> OrElse(pod.phase, "Unknown"),
         restarts |-> SumOf(statuses, RestartsOf),
         reason |-> IF waiting.def /\ waiting.v.waiting.v.reason.def
                    THEN waiting.v.waiting.v.reason
                    ELSE IF cond.def THEN cond.v.reason ELSE None,
         message |-> IF waiting.def /\ waiting.v.waiting.v.message.def
                     THEN waiting.v.waiting.v.message
                     ELSE pod.message]

\* a variant that looks at the waiting sub-object before the running one
ContainerStatus_WaitingFirst(c) ==
    LET state == IF c.waiting.def THEN "waiting"
                 ELSE IF c.running THEN "running"
                 ELSE IF c.terminated.def THEN "terminated"
                 ELSE "unknown"
        reason == IF c.waiting.def THEN c.waiting.v.reason
                  ELSE IF c.running THEN None
                  ELSE IF c.terminated.def THEN c.terminated.v.reason
                  ELSE None
    IN  [name |-> c.name, image |-> c.image, ready |-> c.ready,
         restarts |-> RestartsOf(c), state |-> state, reason |-> reason]

ContainerStatus(c) ==
    LET state == IF c.running THEN "running"
                 ELSE IF c.waiting.def THEN "waiting"
                 ELSE IF c.terminated.def THEN "terminated"
                 ELSE "unknown"
        reason == IF c.running THEN None
                  ELSE IF c.waiting.def THEN c.waiting.v.reason
                  ELSE IF c.terminated.def THEN c.terminated.v.reason
                  ELSE None
    IN  [name |-> c.name, image |-> c.image, ready |-> c.ready,
         restarts |-> RestartsOf(c), state |-> state, reason |-> reason]

PodCondition(c) == [type |-> c.type, status |-> c.status, reason |-> c.reason]

(***************************************************************************)
(* Events.  A raw event is                                                 *)
(*   [namespace, name, type, reason, message, count, lastTimestamp,        *)
(*    involvedObject]                                (all optional)        *)
(* with involvedObject the sub-object [kind, name], both optional.         *)
(***************************************************************************)
\* new Date(e.lastTimestamp ?? 0).getTime()
EventTime(e) == OrElse(e.lastTimestamp, 0)

\* a variant that orders the oldest event first
CompareEvents_OldestFirst(a, b) == EventTime(a) - EventTime(b)

\* The comparator (a, b) => time(b) - time(a): negative keeps a before b.
CompareEvents(a, b) == EventTime(b) - EventTime(a)

\* Array.prototype.sort is stable: a comes before b in the result when the
\* comparator is negative for (a, b), or is zero and a came before b.  The
\* place of an element is one more than the number of elements before it.
SortsBefore(items, j, i) ==
    \/ CompareEvents(items[j], items[i]) < 0
    \/ CompareEvents(items[j], items[i]) = 0 /\ j < i

Place(items, i) == 1 + Cardinality({j \in 1..Len(items) : SortsBefore(items, j, i)})

SortEvents(items) ==
    [p \in 1..Len(items) |-> items[CHOOSE i \in 1..Len(items) : Place(items, i) = p]]

PodEventLimit == 10

PodEvent(e, t) ==
    [type |-> OrElse(e.type, ""),
     reason |-> OrElse(e.reason, ""),
     message |-> OrElse(e.message, ""),
     count |-> OrElse(e.count, 1),
     lastSeen |-> age(e.lastTimestamp, t)]

\* `${x}` in a template literal: an undefined value renders as 'undefined'
Rendered(o) == OrElse(o, "undefined")

EventSummary(e, t) ==
    [namespace |-> OrElse(e.namespace, ""),
     name |-> OrElse(e.name, ""),
     type |-> OrElse(e.type, "Normal"),
     reason |-> OrElse(e.reason, ""),
     message |-> OrElse(e.message, ""),
     count |-> OrElse(e.count, 1),
     involvedObject |-> <<Rendered(e.involvedObject.v.kind), "/",
                          Rendered(e.involvedObject.v.name)>>,
     lastSeen |-> age(e.lastTimestamp, t)]

DefaultEventLimit == 50

NamespacedListApis ==
    {"listNamespacedPod", "listNamespacedDeployment", "listNamespacedService",
     "listNamespacedEvent", "listNamespacedPersistentVolumeClaim",
     "listNamespacedCronJob", "listNamespacedJob", "listNamespacedCustomObject"}

ClusterWideListApis ==
    {"listPodForAllNamespaces", "listDeploymentForAllNamespaces",
     "listServiceForAllNamespaces", "listEventForAllNamespaces",
     "listPersistentVolumeClaimForAllNamespaces", "listCronJobForAllNamespaces",
     "listJobForAllNamespaces", "listClusterCustomObject",
     "listNode", "listNamespace"}

ReadApis ==
    {"getCode", "readNamespacedPod", "readNamespacedPodLog",
     "readNamespacedDeployment", "readNode", "getNamespacedCustomObject"}

\* namespace ? api.listNamespacedX(namespace) : api.listXForAllNamespaces()
\* a variant that always lists cluster-wide, whatever the namespace
ScopedList_FetchAll(namespace, namespacedApi, clusterApi) ==
    <<Call(clusterApi, "", "", NoExtra)>>

ScopedList(namespace, namespacedApi, clusterApi) ==
    IF Truthy(namespace) THEN <<Call(namespacedApi, namespace.v, "", NoExtra)>>
    ELSE <<Call(clusterApi, "", "", NoExtra)>>

\* a variant that replaces the rejection of a read by an error of its own
AwaitAll_Wrap(rs) ==
    IF \E i \in 1..Len(rs) : rs[i].st = "err"
    THEN Rejected("InternalError")
    ELSE Resolved([i \in 1..Len(rs) |-> rs[i].val])

\* await / Promise.all over the reads an operation issued: the bodies when
\* every read resolved, the rejection of the read that rejected otherwise.
AwaitAll(rs) ==
    IF \E i \in 1..Len(rs) : rs[i].st = "err"
    THEN Rejected(rs[CHOOSE i \in 1..Len(rs) : rs[i].st = "err"].val)
    ELSE Resolved([i \in 1..Len(rs) |-> rs[i].val])

\* then(f): f applied to the bodies, a rejection passed on unchanged
Then(r, F(_)) == IF r.ok THEN Resolved(F(r.val)) ELSE r

(***************************************************************************)
(* listCustomObjects: the calls it issues, and its try / catch.            *)
(***************************************************************************)
\* a variant that issues the list call a second time
listCustomObjects_calls_Twice(group, version, plural, namespace) ==
    IF Truthy(namespace)
    THEN <<Call("listNamespacedCustomObject", namespace.v, "", <<group, version, plural>>),
           Call("listNamespacedCustomObject", namespace.v, "", <<group, version, plural>>)>>
    ELSE <<Call("listClusterCustomObject", "", "", <<group, version, plural>>),
           Call("listClusterCustomObject", "", "", <<group, version, plural>>)>>

listCustomObjects_calls(group, version, plural, namespace) ==
    IF Truthy(namespace)
    THEN <<Call("listNamespacedCustomObject", namespace.v, "", <<group, version, plural>>)>>
    ELSE <<Call("listClusterCustomObject", "", "", <<group, version, plural>>)>>

\* a variant without the catch: the failure of the list call is passed on
listCustomObjects_Rethrow(rs) ==
    IF rs[1].st = "err" THEN Rejected(rs[1].val)
    ELSE Resolved(OrElse(rs[1].val.items, <<>>))

\* try { res = await ...; return res.body.items ?? [] } catch { return [] }
listCustomObjects(rs) ==
    IF rs[1].st = "err" THEN Resolved(<<>>)
    ELSE Resolved(OrElse(rs[1].val.items, <<>>))

(***************************************************************************)
(* The adapter: for each method X, X_calls is the raw calls it issues and  *)
(* X is what its promise settles with once those reads have settled (rs),  *)
(* Date.now() being t.                                                     *)
(***************************************************************************)
getClusterInfo_calls ==
    <<Call("getCode", "", "", NoExtra), Call("listNode", "", "", NoExtra),
      Call("listNamespace", "", "", NoExtra),
      Call("listPodForAllNamespaces", "", "", NoExtra)>>

\* a variant that counts the namespaces in the response of the pod read
getClusterInfo_CountsSibling(rs) ==
    Then(AwaitAll(rs), LAMBDA b :
        [serverVersion |-> <<b[1].major, ".", b[1].minor>>,
         platform |-> OrElse(b[1].platform, "unknown"),
         nodeCount |-> Len(b[2].items),
         namespaceCount |-> Len(b[4].items),
         podCount |-> Len(b[4].items)])

getClusterInfo(rs) ==
    Then(AwaitAll(rs), LAMBDA b :
        [serverVersion |-> <<b[1].major, ".", b[1].minor>>,
         platform |-> OrElse(b[1].platform, "unknown"),
         nodeCount |-> Len(b[2].items),
         namespaceCount |-> Len(b[3].items),
         podCount |-> Len(b[4].items)])

listNamespaces_calls == <<Call("listNamespace", "", "", NoExtra)>>

NamespaceSummary(ns, t) ==
    [name |-> OrElse(ns.name, ""),
     status |-> OrElse(ns.phase, "Unknown"),
     age |-> age(ns.creationTimestamp, t)]

listNamespaces(rs, t) ==
    Then(AwaitAll(rs), LAMBDA b : Map(b[1].items, LAMBDA ns : NamespaceSummary(ns, t)))

listPods_calls(namespace) ==
    ScopedList(namespace, "listNamespacedPod", "listPodForAllNamespaces")

listPods(rs, t) ==
    Then(AwaitAll(rs), LAMBDA b : Map(b[1].items, LAMBDA pod : PodSummary(pod, t)))

getPod_calls(namespace, name) ==
    <<Call("readNamespacedPod", namespace, name, NoExtra),
      Call("listNamespacedEvent", namespace, "", <<"involvedObject.name=", name>>)>>

\* a variant that keeps the first ten events of the raw list as they came
PodDetail_RawOrder(namespace, name, pod, items, t) ==
    LET cs == OrElse(pod.containerStatuses, <<>>)
    IN  [namespace |-> namespace, name |-> name,
         status |-> OrElse(pod.phase, "Unknown"),
         ready |-> ReadyRatio(cs),
         restarts |-> SumOf(cs, RestartsOf),
         age |-> age(pod.creationTimestamp, t),
         node |-> pod.nodeName,
         ip |-> pod.podIP,
         containers |-> Map(cs, ContainerStatus),
         conditions |-> Map(OrElse(pod.conditions, <<>>), PodCondition),
         events |-> Map(Slice0(items, PodEventLimit), LAMBDA e : PodEvent(e, t))]

PodDetail(namespace, name, pod, items, t) ==
    LET cs == OrElse(pod.containerStatuses, <<>>)
    IN  [namespace |-> namespace, name |-> name,
         status |-> OrElse(pod.phase, "Unknown"),
         ready |-> ReadyRatio(cs),
         restarts |-> SumOf(cs, RestartsOf),
         age |-> age(pod.creationTimestamp, t),
         node |-> pod.nodeName,
         ip |-> pod.podIP,
         containers |-> Map(cs, ContainerStatus),
         conditions |-> Map(OrElse(pod.conditions, <<>>), PodCondition),
         events |-> Map(Slice0(SortEvents(items), PodEventLimit),
                        LAMBDA e : PodEvent(e, t))]

\* a variant that degrades to a detail without events when only the event
\* read failed
getPod_WithoutEvents(namespace, name, rs, t) ==
    IF rs[1].st = "ok" /\ rs[2].st = "err"
    THEN Resolved(PodDetail(namespace, name, rs[1].val, <<>>, t))
    ELSE Then(AwaitAll(rs), LAMBDA b : PodDetail(namespace, name, b[1], b[2].items, t))

getPod(namespace, name, rs, t) ==
    Then(AwaitAll(rs), LAMBDA b : PodDetail(namespace, name, b[1], b[2].items, t))

DefaultTailLines == 100

\* a variant that defaults with || : a tailLines of 0 becomes the default
getPodLogs_calls_FalsyDefault(namespace, name, opts) ==
    <<Call("readNamespacedPodLog", namespace, name,
           [container |-> opts.container,
            previous |-> OrElse(opts.previous, FALSE),
            sinceSeconds |-> opts.sinceSeconds,
            tailLines |-> IF opts.tailLines.def /\ opts.tailLines.v # 0
                          THEN opts.tailLines.v ELSE DefaultTailLines,
            timestamps |-> TRUE])>>

getPodLogs_calls(namespace, name, opts) ==
    <<Call("readNamespacedPodLog", namespace, name,
           [container |-> opts.container,
            previous |-> OrElse(opts.previous, FALSE),
            sinceSeconds |-> opts.sinceSeconds,
            tailLines |-> OrElse(opts.tailLines, DefaultTailLines),
            timestamps |-> TRUE])>>

getPodLogs(rs) == Then(AwaitAll(rs), LAMBDA b : b[1])

getPodProblems_calls(namespace) ==
    ScopedList(namespace, "listNamespacedPod", "listPodForAllNamespaces")

getPodProblems(rs) ==
    Then(AwaitAll(rs), LAMBDA b : Map(SelectSeq(b[1].items, IsProblem), PodProblem))

(***************************************************************************)
(* Deployments, services, nodes.  Raw records, all leaves optional:        *)
(*   deployment [namespace, name, creationTimestamp, readyReplicas,        *)
(*               replicas, updatedReplicas, availableReplicas, images,     *)
(*               strategy, conditions, labels, annotations]                *)
(*   service    [namespace, name, creationTimestamp, type, clusterIP,      *)
(*               ports, ingress]                                           *)
(*   node       [name, creationTimestamp, labels, conditions,              *)
(*               kubeletVersion, osImage, architecture, podCIDR, taints,   *)
(*               allocatable, capacity]                                    *)
(* A label key is [role, rest]: the key is the role prefix                 *)
(* 'node-role.kubernetes.io/' (when role) followed by rest.                *)
(***************************************************************************)
ReplicaRatio(d) ==
    NumStr(OrElse(d.readyReplicas, 0)) \o <<"/">> \o NumStr(OrElse(d.replicas, 0))

\* a variant that reports the ready replicas as the available ones
DeploymentSummary_ReadyAsAvailable(d, t) ==
    [namespace |-> OrElse(d.namespace, ""),
     name |-> OrElse(d.name, ""),
     ready |-> ReplicaRatio(d),
     upToDate |-> OrElse(d.updatedReplicas, 0),
     available |-> OrElse(d.readyReplicas, 0),
     age |-> age(d.creationTimestamp, t)]

DeploymentSummary(d, t) ==
    [namespace |-> OrElse(d.namespace, ""),
     name |-> OrElse(d.name, ""),
     ready |-> ReplicaRatio(d),
     upToDate |-> OrElse(d.updatedReplicas, 0),
     available |-> OrElse(d.availableReplicas, 0),
     age |-> age(d.creationTimestamp, t)]

listDeployments_calls(namespace) ==
    ScopedList(namespace, "listNamespacedDeployment", "listDeploymentForAllNamespaces")

listDeployments(rs, t) ==
    Then(AwaitAll(rs), LAMBDA b : Map(b[1].items, LAMBDA d : DeploymentSummary(d, t)))

getDeployment_calls(namespace, name) ==
    <<Call("readNamespacedDeployment", namespace, name, NoExtra)>>

DeploymentDetail(namespace, name, d, t) ==
    [namespace |-> namespace, name |-> name,
     ready |-> ReplicaRatio(d),
     upToDate |-> OrElse(d.updatedReplicas, 0),
     available |-> OrElse(d.availableReplicas, 0),
     age |-> age(d.creationTimestamp, t),
     image |-> Join(Map(OrElse(d.images, <<>>), LAMBDA i : <<i>>), <<", ">>),
     replicas |-> OrElse(d.replicas, 0),
     strategy |-> OrElse(d.strategy, "RollingUpdate"),
     conditions |-> OrElse(d.conditions, <<>>),
     labels |-> OrElse(d.labels, <<>>),
     annotations |-> OrElse(d.annotations, <<>>)]

getDeployment(namespace, name, rs, t) ==
    Then(AwaitAll(rs), LAMBDA b : DeploymentDetail(namespace, name, b[1], t))

listServices_calls(namespace) ==
    ScopedList(namespace, "listNamespacedService", "listServiceForAllNamespaces")

ServiceSummary(svc, t) ==
    LET ports == Join(Map(OrElse(svc.ports, <<>>),
                          LAMBDA q : NumStr(q.port) \o <<"/", OrElse(q.protocol, "TCP")>>),
                      <<",">>)
        externalIPs == IF svc.ingress.def
                       THEN Some(Join(Map(svc.ingress.v,
                                LAMBDA i : <<IF i.ip.def THEN i.ip.v
                                             ELSE OrElse(i.hostname, "")>>),
                                <<",">>))
                       ELSE None
    IN  [namespace |-> OrElse(svc.namespace, ""),
         name |-> OrElse(svc.name, ""),
         type |-> OrElse(svc.type, "ClusterIP"),
         clusterIP |-> OrElse(svc.clusterIP, ""),
         externalIP |-> IF externalIPs.def /\ ~IsEmptyText(externalIPs.v)
                        THEN externalIPs ELSE None,
         ports |-> ports,
         age |-> age(svc.creationTimestamp, t)]

listServices(rs, t) ==
    Then(AwaitAll(rs), LAMBDA b : Map(b[1].items, LAMBDA svc : ServiceSummary(svc, t)))

\* a variant that takes every label key for a role key
IsRoleLabel_AnyKey(k) == TRUE

IsRoleLabel(k) == k.role
IsReadyCondition(c) == c.type = "Ready"

NodeRoles(node) ==
    LET joined == Join(Map(SelectSeq(OrElse(node.labels, <<>>), IsRoleLabel),
                           LAMBDA k : <<k.rest>>), <<",">>)
    IN  IF IsEmptyText(joined) THEN <<"worker">> ELSE joined

NodeStatus(node) ==
    LET ready == Find(OrElse(node.conditions, <<>>), IsReadyCondition)
    IN  IF ready.def /\ ready.v.status = "True" THEN "Ready" ELSE "NotReady"

NodeSummary(node, t) ==
    [name |-> OrElse(node.name, ""),
     status |-> NodeStatus(node),
     roles |-> NodeRoles(node),
     age |-> age(node.creationTimestamp, t),
     version |-> OrElse(node.kubeletVersion, ""),
     os |-> OrElse(node.osImage, "")]

listNodes_calls == <<Call("listNode", "", "", NoExtra)>>

listNodes(rs, t) ==
    Then(AwaitAll(rs), LAMBDA b : Map(b[1].items, LAMBDA node : NodeSummary(node, t)))

getNode_calls(name) == <<Call("readNode", "", name, NoExtra)>>

ResourceList(r) ==
    [cpu |-> IF r.def THEN OrElse(r.v.cpu, "") ELSE "",
     memory |-> IF r.def THEN OrElse(r.v.memory, "") ELSE "",
     pods |-> IF r.def THEN OrElse(r.v.pods, "") ELSE ""]

NodeDetail(node, t) ==
    [name |-> OrElse(node.name, ""),
     status |-> NodeStatus(node),
     roles |-> NodeRoles(node),
     age |-> age(node.creationTimestamp, t),
     version |-> OrElse(node.kubeletVersion, ""),
     os |-> OrElse(node.osImage, ""),
     cpu |-> OrElse(node.architecture, ""),
     memory |-> ResourceList(node.allocatable).memory,
     podCIDR |-> node.podCIDR,
     taints |-> Map(OrElse(node.taints, <<>>),
                    LAMBDA x : [key |-> x.key, effect |-> OrElse(x.effect, "")]),
     conditions |-> Map(OrElse(node.conditions, <<>>),
                        LAMBDA c : [type |-> c.type, status |-> c.status,
                                    reason |-> c.reason]),
     allocatable |-> ResourceList(node.allocatable),
     capacity |-> ResourceList(node.capacity)]

getNode(rs, t) == Then(AwaitAll(rs), LAMBDA b : NodeDetail(b[1], t))

(***************************************************************************)
(* Events, PVCs, CronJobs, Jobs.                                           *)
(***************************************************************************)
listEvents_calls(namespace) ==
    ScopedList(namespace, "listNamespacedEvent", "listEventForAllNamespaces")

\* limit is the optional second argument: the default applies when it is
\* undefined.  Reading e.involvedObject.kind of an event without an
\* involvedObject throws a TypeError out of the map.
EventSummaries(kept, t) ==
    IF \E i \in 1..Len(kept) : ~kept[i].involvedObject.def
    THEN Rejected("TypeError")
    ELSE Resolved(Map(kept, LAMBDA e : EventSummary(e, t)))

listEvents(limit, rs, t) ==
    LET r == AwaitAll(rs)
    IN  IF ~r.ok THEN r
        ELSE EventSummaries(
                Slice0(SortEvents(r.val[1].items), OrElse(limit, DefaultEventLimit)), t)

listPVCs_calls(namespace) ==
    ScopedList(namespace, "listNamespacedPersistentVolumeClaim",
               "listPersistentVolumeClaimForAllNamespaces")

PVCSummary(pvc, t) ==
    [namespace |-> OrElse(pvc.namespace, ""),
     name |-> OrElse(pvc.name, ""),
     status |-> OrElse(pvc.phase, "Unknown"),
     volume |-> OrElse(pvc.volumeName, ""),
     capacity |-> OrElse(pvc.storage, ""),
     accessModes |-> Join(Map(OrElse(pvc.accessModes, <<>>), LAMBDA m : <<m>>), <<",">>),
     storageClass |-> OrElse(pvc.storageClassName, ""),
     age |-> age(pvc.creationTimestamp, t)]

listPVCs(rs, t) ==
    Then(AwaitAll(rs), LAMBDA b : Map(b[1].items, LAMBDA pvc : PVCSummary(pvc, t)))

listCronJobs_calls(namespace) ==
    ScopedList(namespace, "listNamespacedCronJob", "listCronJobForAllNamespaces")

CronJobSummary(cj, t) ==
    [namespace |-> OrElse(cj.namespace, ""),
     name |-> OrElse(cj.name, ""),
     schedule |-> OrElse(cj.schedule, ""),
     suspend |-> OrElse(cj.suspend, FALSE),
     active |-> IF cj.active.def THEN Len(cj.active.v) ELSE 0,
     lastSchedule |-> IF cj.lastScheduleTime.def
                      THEN Some(age(cj.lastScheduleTime, t)) ELSE None,
     age |-> age(cj.creationTimestamp, t)]

listCronJobs(rs, t) ==
    Then(AwaitAll(rs), LAMBDA b : Map(b[1].items, LAMBDA cj : CronJobSummary(cj, t)))

listJobs_calls(namespace) ==
    ScopedList(namespace, "listNamespacedJob", "listJobForAllNamespaces")

IsCompleteTrue(c) == c.type = "Complete" /\ c.status = "True"
IsFailedTrue(c) == c.type = "Failed" /\ c.status = "True"

MsPerSecond == 1000

\* Math.round(ms / 1000): the nearest integer, a half rounding up
RoundSeconds(ms) == FloorDiv(2 * ms + MsPerSecond, 2 * MsPerSecond)

\* a variant that looks for the Failed condition first
JobSummary_FailedFirst(job, t) ==
    LET conds == OrElse(job.conditions, <<>>)
    IN  [namespace |-> OrElse(job.namespace, ""),
         name |-> OrElse(job.name, ""),
         completions |-> NumStr(OrElse(job.succeeded, 0)) \o <<"/">>
                            \o NumStr(OrElse(job.completions, 1)),
         duration |-> IF job.startTime.def /\ job.completionTime.def
                      THEN Some(NumStr(RoundSeconds(job.completionTime.v - job.startTime.v))
                                \o <<"s">>)
                      ELSE None,
         age |-> age(job.creationTimestamp, t),
         status |-> IF Find(conds, IsFailedTrue).def THEN "Failed"
                    ELSE IF Find(conds, IsCompleteTrue).def THEN "Complete"
                    ELSE "Running"]

JobSummary(job, t) ==
    LET conds == OrElse(job.conditions, <<>>)
    IN  [namespace |-> OrElse(job.namespace, ""),
         name |-> OrElse(job.name, ""),
         completions |-> NumStr(OrElse(job.succeeded, 0)) \o <<"/">>
                            \o NumStr(OrElse(job.completions, 1)),
         duration |-> IF job.startTime.def /\ job.completionTime.def
                      THEN Some(NumStr(RoundSeconds(job.completionTime.v - job.startTime.v))
                                \o <<"s">>)
                      ELSE None,
         age |-> age(job.creationTimestamp, t),
         status |-> IF Find(conds, IsCompleteTrue).def THEN "Complete"
                    ELSE IF Find(conds, IsFailedTrue).def THEN "Failed"
                    ELSE "Running"]

listJobs(rs, t) ==
    Then(AwaitAll(rs), LAMBDA b : Map(b[1].items, LAMBDA job : JobSummary(job, t)))

(***************************************************************************)
(* Custom resources.  Raw records, all leaves optional:                    *)
(*   ingress route [namespace, name, creationTimestamp, entryPoints,       *)
(*                  routes]                                                *)
(*   application   [name, project, syncStatus, healthStatus, repoURL,      *)
(*                  path, targetRevision, destNamespace, conditions,       *)
(*                  resources, history]                                    *)
(*   scaled object [namespace, name, creationTimestamp, targetKind,        *)
(*                  targetName, minReplicaCount, maxReplicaCount,          *)
(*                  triggers, conditions]                                  *)
(*   volume        [name, state, robustness, accessMode, size,             *)
(*                  numberOfReplicas, ksNamespace, pvcName]                *)
(***************************************************************************)
listIngressRoutes_calls(namespace) ==
    listCustomObjects_calls("traefik.io", "v1alpha1", "ingressroutes", namespace)

IngressRouteSummary(ir, t) ==
    [namespace |-> OrElse(ir.namespace, ""),
     name |-> OrElse(ir.name, ""),
     entryPoints |-> OrElse(ir.entryPoints, <<>>),
     rules |-> Map(OrElse(ir.routes, <<>>),
                   LAMBDA r : [match |-> OrElse(r.match, ""),
                               services |-> Map(OrElse(r.services, <<>>),
                                   LAMBDA sv : <<sv.name, ":", sv.port>>)]),
     age |-> age(ir.creationTimestamp, t)]

listIngressRoutes(rs, t) ==
    Then(listCustomObjects(rs),
         LAMBDA items : Map(items, LAMBDA ir : IngressRouteSummary(ir, t)))

ArgoCDNamespace == Some("argocd")

listArgoCDApps_calls ==
    listCustomObjects_calls("argoproj.io", "v1alpha1", "applications", ArgoCDNamespace)

ArgoCDAppSummary(app) ==
    [name |-> OrElse(app.name, ""),
     project |-> OrElse(app.project, "default"),
     syncStatus |-> OrElse(app.syncStatus, "Unknown"),
     healthStatus |-> OrElse(app.healthStatus, "Unknown"),
     repo |-> OrElse(app.repoURL, ""),
     path |-> OrElse(app.path, ""),
     targetRevision |-> OrElse(app.targetRevision, "HEAD"),
     namespace |-> OrElse(app.destNamespace, "")]

listArgoCDApps(rs) ==
    Then(listCustomObjects(rs), LAMBDA items : Map(items, ArgoCDAppSummary))

\* a variant that refreshes the application with a patch before reading it
getArgoCDApp_calls_Refresh(name) ==
    <<Call("patchNamespacedCustomObject", "argocd", name,
           <<"argoproj.io", "v1alpha1", "applications">>)>>

getArgoCDApp_calls(name) ==
    <<Call("getNamespacedCustomObject", "argocd", name,
           <<"argoproj.io", "v1alpha1", "applications">>)>>

HistoryLimit == 10

\* s.slice(-n): the last n elements
LastN(s, n) == IF Len(s) <= n THEN s ELSE SubSeq(s, Len(s) - n + 1, Len(s))

ArgoCDAppDetail(app) ==
    [name |-> OrElse(app.name, ""),
     project |-> OrElse(app.project, "default"),
     syncStatus |-> OrElse(app.syncStatus, "Unknown"),
     healthStatus |-> OrElse(app.healthStatus, "Unknown"),
     repo |-> OrElse(app.repoURL, ""),
     path |-> OrElse(app.path, ""),
     targetRevision |-> OrElse(app.targetRevision, "HEAD"),
     namespace |-> OrElse(app.destNamespace, ""),
     conditions |-> Map(OrElse(app.conditions, <<>>),
                        LAMBDA c : [type |-> c.type, message |-> c.message]),
     resources |-> Map(OrElse(app.resources, <<>>),
                       LAMBDA r : [group |-> OrElse(r.group, ""),
                                   kind |-> OrElse(r.kind, ""),
                                   namespace |-> OrElse(r.namespace, ""),
                                   name |-> OrElse(r.name, ""),
                                   status |-> OrElse(r.status, ""),
                                   health |-> r.health]),
     history |-> Map(LastN(OrElse(app.history, <<>>), HistoryLimit),
                     LAMBDA h : [revision |-> OrElse(h.revision, ""),
                                 deployedAt |-> OrElse(h.deployedAt, ""),
                                 id |-> OrElse(h.id, 0)])]

\* a variant under the policy of the CRD listings: no application on failure
getArgoCDApp_Degrading(rs) ==
    IF rs[1].st = "err" THEN Resolved(None)
    ELSE Resolved(ArgoCDAppDetail(rs[1].val))

getArgoCDApp(rs) == Then(AwaitAll(rs), LAMBDA b : ArgoCDAppDetail(b[1]))

listScaledObjects_calls(namespace) ==
    listCustomObjects_calls("keda.sh", "v1alpha1", "scaledobjects", namespace)

DefaultMaxReplicas == 100

ConditionStatus(conds, type) ==
    LET c == Find(OrElse(conds, <<>>), LAMBDA x : x.type = type)
    IN  IF c.def THEN OrElse(c.v.status, "Unknown") ELSE "Unknown"

ScaledObjectSummary(so, t) ==
    [namespace |-> OrElse(so.namespace, ""),
     name |-> OrElse(so.name, ""),
     scaleTargetKind |-> OrElse(so.targetKind, "Deployment"),
     scaleTargetName |-> OrElse(so.targetName, ""),
     minReplicas |-> OrElse(so.minReplicaCount, 0),
     maxReplicas |-> OrElse(so.maxReplicaCount, DefaultMaxReplicas),
     triggers |-> Join(Map(OrElse(so.triggers, <<>>), LAMBDA x : <<x.type>>), <<",">>),
     ready |-> ConditionStatus(so.conditions, "Ready"),
     active |-> ConditionStatus(so.conditions, "Active"),
     age |-> age(so.creationTimestamp, t)]

listScaledObjects(rs, t) ==
    Then(listCustomObjects(rs),
         LAMBDA items : Map(items, LAMBDA so : ScaledObjectSummary(so, t)))

LonghornNamespace == Some("longhorn-system")

listLonghornVolumes_calls ==
    listCustomObjects_calls("longhorn.io", "v1beta2", "volumes", LonghornNamespace)

LonghornVolumeSummary(v) ==
    [name |-> OrElse(v.name, ""),
     state |-> OrElse(v.state, "unknown"),
     robustness |-> OrElse(v.robustness, "unknown"),
     accessMode |-> OrElse(v.accessMode, ""),
     size |-> OrElse(v.size, ""),
     replicas |-> OrElse(v.numberOfReplicas, 0),
     namespace |-> v.ksNamespace,
     pvc |-> v.pvcName]

listLonghornVolumes(rs) ==
    Then(listCustomObjects(rs), LAMBDA items : Map(items, LonghornVolumeSummary))

(***************************************************************************)
(* The tool catalog built by createApp.  An input schema is kept as the    *)
(* names of its properties and of its required properties; method is the   *)
(* adapter method the tool's execute function calls.                       *)
(***************************************************************************)
Schema(props, required) == [type |-> "object", properties |-> props, required |-> required]

\* a variant in which the tool for listPods calls getPodProblems instead
Tool_CrossWired(name, description, schema, method) ==
    [name |-> name, description |-> description, inputSchema |-> schema,
     method |-> IF method = "listPods" THEN "getPodProblems" ELSE method]

Tool(name, description, schema, method) ==
    [name |-> name, description |-> description, inputSchema |-> schema, method |-> method]

tools ==
    <<Tool("k8s_cluster_info",
           "Get cluster info: server version, node count, namespace count, pod count.",
           Schema({}, {}), "getClusterInfo"),
      Tool("k8s_list_namespaces", "List all namespaces in the cluster.",
           Schema({}, {}), "listNamespaces"),
      Tool("k8s_list_pods", "List pods, optionally filtered by namespace.",
           Schema({"namespace"}, {}), "listPods"),
      Tool("k8s_get_pod",
           "Get full details for a pod: containers, conditions, and recent events.",
           Schema({"namespace", "name"}, {"namespace", "name"}), "getPod"),
      Tool("k8s_get_pod_logs", "Get logs from a pod container.",
           Schema({"namespace", "name", "container", "tailLines", "sinceSeconds", "previous"},
                  {"namespace", "name"}), "getPodLogs"),
      Tool("k8s_pod_problems", "List pods that are failing, crashing, or not ready.",
           Schema({"namespace"}, {}), "getPodProblems"),
      Tool("k8s_list_deployments", "List deployments, optionally filtered by namespace.",
           Schema({"namespace"}, {}), "listDeployments"),
      Tool("k8s_get_deployment",
           "Get full details for a deployment: image, strategy, conditions.",
           Schema({"namespace", "name"}, {"namespace", "name"}), "getDeployment"),
      Tool("k8s_list_services", "List services, optionally filtered by namespace.",
           Schema({"namespace"}, {}), "listServices"),
      Tool("k8s_list_nodes", "List all nodes with status, roles, and version.",
           Schema({}, {}), "listNodes"),
      Tool("k8s_get_node",
           "Get full details for a node: capacity, allocatable resources, taints, conditions.",
           Schema({"name"}, {"name"}), "getNode"),
      Tool("k8s_list_events",
           "List recent cluster events, optionally filtered by namespace. Warning events surface failures and scheduling issues.",
           Schema({"namespace", "limit"}, {}), "listEvents"),
      Tool("k8s_list_pvcs",
           "List PersistentVolumeClaims with status, capacity, and storage class.",
           Schema({"namespace"}, {}), "listPVCs"),
      Tool("k8s_list_cronjobs",
           "List CronJobs with schedule, suspend status, and last schedule time.",
           Schema({"namespace"}, {}), "listCronJobs"),
      Tool("k8s_list_jobs", "List Jobs with completion status and duration.",
           Schema({"namespace"}, {}), "listJobs"),
      Tool("k8s_list_ingress_routes",
           "List Traefik IngressRoutes with entry points and routing rules.",
           Schema({"namespace"}, {}), "listIngressRoutes"),
      Tool("k8s_list_argocd_apps",
           "List all ArgoCD Applications with sync and health status.",
           Schema({}, {}), "listArgoCDApps"),
      Tool("k8s_get_argocd_app",
           "Get full ArgoCD Application details: resources, conditions, and deploy history.",
           Schema({"name"}, {"name"}), "getArgoCDApp"),
      Tool("k8s_list_scaled_objects",
           "List KEDA ScaledObjects with target, replica bounds, and trigger types.",
           Schema({"namespace"}, {}), "listScaledObjects"),
      Tool("k8s_list_longhorn_volumes",
           "List Longhorn volumes with state, robustness, replica count, and bound PVC.",
           Schema({}, {}), "listLonghornVolumes")>>

\* `${x}` and the argument the raw client receives for an absent value
Arg(o) == OrElse(o, "undefined")

\* The raw calls tool.execute(a) issues before it first suspends.
execute_calls(tool, a) ==
    CASE tool.method = "getClusterInfo" -> getClusterInfo_calls
      [] tool.method = "listNamespaces" -> listNamespaces_calls
      [] tool.method = "listPods" -> listPods_calls(a.namespace)
      [] tool.method = "getPod" -> getPod_calls(Arg(a.namespace), Arg(a.name))
      [] tool.method = "getPodLogs" ->
            getPodLogs_calls(Arg(a.namespace), Arg(a.name),
                [container |-> a.container, tailLines |-> a.tailLines,
                 sinceSeconds |-> a.sinceSeconds, previous |-> a.previous])
      [] tool.method = "getPodProblems" -> getPodProblems_calls(a.namespace)
      [] tool.method = "listDeployments" -> listDeployments_calls(a.namespace)
      [] tool.method = "getDeployment" -> getDeployment_calls(Arg(a.namespace), Arg(a.name))
      [] tool.method = "listServices" -> listServices_calls(a.namespace)
      [] tool.method = "listNodes" -> listNodes_calls
      [] tool.method = "getNode" -> getNode_calls(Arg(a.name))
      [] tool.method = "listEvents" -> listEvents_calls(a.namespace)
      [] tool.method = "listPVCs" -> listPVCs_calls(a.namespace)
      [] tool.method = "listCronJobs" -> listCronJobs_calls(a.namespace)
      [] tool.method = "listJobs" -> listJobs_calls(a.namespace)
      [] tool.method = "listIngressRoutes" -> listIngressRoutes_calls(a.namespace)
      [] tool.method = "listArgoCDApps" -> listArgoCDApps_calls
      [] tool.method = "getArgoCDApp" -> getArgoCDApp_calls(Arg(a.name))
      [] tool.method = "listScaledObjects" -> listScaledObjects_calls(a.namespace)
      [] tool.method = "listLonghornVolumes" -> listLonghornVolumes_calls

\* What the promise of tool.execute(a) settles with, its reads being rs.
execute(tool, a, rs, t) ==
    CASE tool.method = "getClusterInfo" -> getClusterInfo(rs)
      [] tool.method = "listNamespaces" -> listNamespaces(rs, t)
      [] tool.method = "listPods" -> listPods(rs, t)
      [] tool.method = "getPod" -> getPod(a.namespace, a.name, rs, t)
      [] tool.method = "getPodLogs" -> Then(getPodLogs(rs), LAMBDA l : [logs |-> l])
      [] tool.method = "getPodProblems" -> getPodProblems(rs)
      [] tool.method = "listDeployments" -> listDeployments(rs, t)
      [] tool.method = "getDeployment" -> getDeployment(a.namespace, a.name, rs, t)
      [] tool.method = "listServices" -> listServices(rs, t)
      [] tool.method = "listNodes" -> listNodes(rs, t)
      [] tool.method = "getNode" -> getNode(rs, t)
      [] tool.method = "listEvents" -> listEvents(a.limit, rs, t)
      [] tool.method = "listPVCs" -> listPVCs(rs, t)
      [] tool.method = "listCronJobs" -> listCronJobs(rs, t)
      [] tool.method = "listJobs" -> listJobs(rs, t)
      [] tool.method = "listIngressRoutes" -> listIngressRoutes(rs, t)
      [] tool.method = "listArgoCDApps" -> listArgoCDApps(rs)
      [] tool.method = "getArgoCDApp" -> getArgoCDApp(rs)
      [] tool.method = "listScaledObjects" -> listScaledObjects(rs, t)
      [] tool.method = "listLonghornVolumes" -> listLonghornVolumes(rs)

(***************************************************************************)
(* The dispatcher of bin/cli.js.                                           *)
(***************************************************************************)
\* app.tools.find((t) => t.name === name)
\* a variant that falls back to the first tool of the catalog
FindTool_Default(name) ==
    IF Find(tools, LAMBDA x : x.name = name).def
    THEN Find(tools, LAMBDA x : x.name = name)
    ELSE Some(tools[1])

FindTool(name) == Find(tools, LAMBDA x : x.name = name)

\* JSON.stringify(result, null, 2) and String(e): the text is kept as the
\* value it renders, marked by which of the two produced it.
JSONstringify(v) == [json |-> v]
String(e) == [str |-> e]

TextContent(text) == <<[type |-> "text", text |-> text]>>
UnknownToolResult(name) ==
    [content |-> TextContent(<<"Unknown tool: ", name>>), isError |-> TRUE]
SuccessResult(v) == [content |-> TextContent(JSONstringify(v))]
ErrorResult(e) == [content |-> TextContent(String(e)), isError |-> TRUE]

\* a variant that keeps the last failure in a place all invocations share:
\* a success is answered with the failure of the invocation served beside it
Handle_SharedFailure(r) ==
    IF r.ok /\ peer.pc = "done" /\ "isError" \in DOMAIN peer.envelope
    THEN [envelope |-> peer.envelope, escaped |-> FALSE]
    ELSE IF r.ok THEN [envelope |-> SuccessResult(r.val), escaped |-> FALSE]
    ELSE [envelope |-> ErrorResult(r.err), escaped |-> FALSE]

\* a variant without the catch: a rejection leaves the handler
Handle_NoCatch(r) ==
    IF r.ok THEN [envelope |-> SuccessResult(r.val), escaped |-> FALSE]
    ELSE [envelope |-> [none |-> TRUE], escaped |-> TRUE]

\* try { ... return success } catch (e) { return error }: the envelope the
\* handler returns and whether the exception left the handler.
Handle(r) ==
    IF r.ok THEN [envelope |-> SuccessResult(r.val), escaped |-> FALSE]
    ELSE [envelope |-> ErrorResult(r.err), escaped |-> FALSE]

\* a variant that returns the first ten tools only
ListToolsResult_FirstPage ==
    [tools |-> Map(SubSeq(tools, 1, 10),
                   LAMBDA x : [name |-> x.name, description |-> x.description,
                               inputSchema |-> x.inputSchema])]

\* the handler of a tool-listing request
ListToolsResult ==
    [tools |-> Map(tools, LAMBDA x : [name |-> x.name, description |-> x.description,
                                      inputSchema |-> x.inputSchema])]

AppName == "@git-fabric/k8s"

\* a variant without the catch branch: the probe reports healthy whatever
\* became of the read
HealthResult_AlwaysHealthy(r, t0, t) ==
    [app |-> AppName, status |-> "healthy", latencyMs |-> t - t0]

\* health(): try { await getClusterInfo() ... } catch (e) { ... }
HealthResult(r, t0, t) ==
    IF r.ok THEN [app |-> AppName, status |-> "healthy", latencyMs |-> t - t0]
    ELSE [app |-> AppName, status |-> "unavailable", latencyMs |-> t - t0,
          details |-> [error |-> String(r.err)]]

NoRequest == [kind |-> "none"]
NoOutcome == [none |-> TRUE]
NoEnvelope == [none |-> TRUE]

IsError(e) == "isError" \in DOMAIN e /\ e.isError

\* a variant in which the rejection of a read is never noticed
Settles_WhenAllResolved(rs) == \A i \in 1..Len(rs) : rs[i].st = "ok"

\* An operation's promise settles when a read rejects or when all resolved.
Settles(rs) ==
    \/ \E i \in 1..Len(rs) : rs[i].st = "err"
    \/ \A i \in 1..Len(rs) : rs[i].st = "ok"

IdlePeer ==
    [pc |-> "idle", req |-> NoRequest, reads |-> <<>>, outcome |-> NoOutcome,
     envelope |-> NoEnvelope, now |-> 0]

Init ==
    /\ peer = IdlePeer
    /\ pc = "idle"
    /\ req = NoRequest
    /\ reads = <<>>
    /\ outcome = NoOutcome
    /\ envelope = NoEnvelope
    /\ escaped = FALSE
    /\ start = 0
    /\ now = 0

\* CallToolRequestSchema handler, up to its first suspension
CallTool(name, a) ==
    LET tool == FindTool(name)
    IN  /\ pc = "idle"
        /\ req' = [kind |-> "call", name |-> name, args |-> a]
        /\ IF ~tool.def
           THEN /\ envelope' = UnknownToolResult(name)
                /\ pc' = "done"
                /\ reads' = <<>>
           ELSE /\ envelope' = NoEnvelope
                /\ pc' = "awaiting"
                /\ reads' = Map(execute_calls(tool.v, a), Pending)
        /\ UNCHANGED <<outcome, escaped, start, now, peer>>

\* ListToolsRequestSchema handler
ListTools ==
    /\ pc = "idle"
    /\ req' = [kind |-> "list"]
    /\ envelope' = ListToolsResult
    /\ pc' = "done"
    /\ UNCHANGED <<reads, outcome, escaped, start, now, peer>>

\* app.health(), up to its first suspension; Date.now() is t0
HealthProbe(t0) ==
    /\ pc = "idle"
    /\ req' = [kind |-> "health"]
    /\ start' = t0
    /\ reads' = Map(getClusterInfo_calls, Pending)
    /\ pc' = "awaiting"
    /\ UNCHANGED <<outcome, envelope, escaped, now, peer>>

\* the reads the raw client has not settled yet
InFlight == {k \in 1..Len(reads) : reads[k].st = "pending"}

\* The raw client settles read k with o = [st, val]; when that settles the
\* awaited operation, the rest of the handler runs, Date.now() being t.  A
\* read whose operation has already settled is not cancelled: it settles
\* unobserved.
RawSettle(k, o, t) ==
    /\ pc \in {"awaiting", "done"}
    /\ k \in 1..Len(reads)
    /\ reads[k].st = "pending"
    /\ t >= start
    /\ reads' = [reads EXCEPT ![k] = [call |-> reads[k].call, st |-> o.st, val |-> o.val]]
    /\ IF pc = "awaiting" /\ Settles(reads')
       THEN LET r == IF req.kind = "health" THEN getClusterInfo(reads')
                     ELSE execute(FindTool(req.name).v, req.args, reads', t)
                h == Handle(r)
            IN  /\ outcome' = r
                /\ now' = t
                /\ pc' = "done"
                /\ envelope' = IF req.kind = "health" THEN HealthResult(r, start, t)
                               ELSE h.envelope
                /\ escaped' = IF req.kind = "health" THEN FALSE ELSE h.escaped
           ELSE UNCHANGED <<pc, outcome, envelope, escaped, now>>
    /\ UNCHANGED <<req, start, peer>>

\* the raw client resolves read k with a body
RawResolve(k, body, t) == RawSettle(k, [st |-> "ok", val |-> body], t)

\* the raw client rejects read k with the error e
RawReject(k, e, t) == RawSettle(k, [st |-> "err", val |-> e], t)

\* The transport sends the result; the server is ready for the next request.
Respond ==
    /\ pc = "done"
    /\ pc' = "idle"
    /\ req' = NoRequest
    /\ reads' = <<>>
    /\ outcome' = NoOutcome
    /\ envelope' = NoEnvelope
    /\ escaped' = FALSE
    /\ start' = 0
    /\ now' = 0
    /\ UNCHANGED peer

(***************************************************************************)
(* A second invocation of the same handler, served while the first is.     *)
(* The handler is the same function over the same catalog and adapter; its *)
(* locals (tool, result, the pending promises) belong to the call.         *)
(***************************************************************************)
PeerCall(name, a) ==
    LET tool == FindTool(name)
        r == [kind |-> "call", name |-> name, args |-> a]
    IN  /\ peer.pc = "idle"
        /\ peer' = IF ~tool.def
                   THEN [pc |-> "done", req |-> r, reads |-> <<>>, outcome |-> NoOutcome,
                         envelope |-> UnknownToolResult(name), now |-> 0]
                   ELSE [pc |-> "awaiting", req |-> r,
                         reads |-> Map(execute_calls(tool.v, a), Pending),
                         outcome |-> NoOutcome, envelope |-> NoEnvelope, now |-> 0]
        /\ UNCHANGED <<pc, req, reads, outcome, envelope, escaped, start, now>>

PeerSettle(k, o, t) ==
    /\ peer.pc \in {"awaiting", "done"}
    /\ k \in 1..Len(peer.reads)
    /\ peer.reads[k].st = "pending"
    /\ LET rs == [peer.reads EXCEPT
                    ![k] = [call |-> peer.reads[k].call, st |-> o.st, val |-> o.val]]
       IN  peer' = IF peer.pc = "awaiting" /\ Settles(rs)
                   THEN LET r == execute(FindTool(peer.req.name).v, peer.req.args, rs, t)
                        IN  [pc |-> "done", req |-> peer.req, reads |-> rs, outcome |-> r,
                             envelope |-> Handle(r).envelope, now |-> t]
                   ELSE [peer EXCEPT !.reads = rs]
    /\ UNCHANGED <<pc, req, reads, outcome, envelope, escaped, start, now>>

PeerResolve(k, body, t) == PeerSettle(k, [st |-> "ok", val |-> body], t)

PeerReject(k, e, t) == PeerSettle(k, [st |-> "err", val |-> e], t)

PeerRespond ==
    /\ peer.pc = "done"
    /\ peer' = IdlePeer
    /\ UNCHANGED <<pc, req, reads, outcome, envelope, escaped, start, now>>

(***************************************************************************)
(* Inputs.  The argument mapping of a request, the errors a raw read can   *)
(* reject with, and the bodies it can resolve with.                        *)
(***************************************************************************)
Args(namespace, name, limit) ==
    [namespace |-> namespace, name |-> name, limit |-> limit, container |-> None,
     tailLines |-> None, sinceSeconds |-> None, previous |-> None]

\* kind not registered / resource absent, auth failure, transport failure
RawErrors == {"NotFound", "Unauthorized", "ETIMEDOUT"}

Items(s) == [items |-> s]

SampleCreated == Some(100000000)

Container(ready, restartCount) ==
    [name |-> "app", image |-> "app:1", ready |-> ready, restartCount |-> restartCount,
     running |-> (ready = Some(TRUE)),
     waiting |-> IF ready = Some(TRUE) THEN None
                 ELSE Some([reason |-> Some("CrashLoopBackOff"), message |-> None]),
     terminated |-> None]

Pod(name, phase, containerStatuses) ==
    [namespace |-> Some("prod"), name |-> Some(name), creationTimestamp |-> SampleCreated,
     nodeName |-> Some("node-1"), podIP |-> None, phase |-> phase, message |-> None,
     containerStatuses |-> containerStatuses,
     conditions |-> Some(<<[type |-> "Ready", status |-> "False",
                            reason |-> Some("ContainersNotReady")]>>)]

SamplePodA == Pod("web-1", Some("Running"), Some(<<Container(Some(TRUE), Some(0))>>))
SamplePodB == Pod("web-2", Some("Pending"), None)

Event(name, lastTimestamp) ==
    [namespace |-> Some("prod"), name |-> Some(name), type |-> Some("Warning"),
     reason |-> Some("BackOff"), message |-> None, count |-> None,
     lastTimestamp |-> lastTimestamp,
     involvedObject |-> Some([kind |-> Some("Pod"), name |-> Some("web-1")])]

SampleEvents == <<Event("e1", Some(100000000)), Event("e2", Some(100060000))>>

\* an event whose involvedObject is absent
OrphanEvent == [Event("e0", None) EXCEPT !.involvedObject = None]

\* an event whose involvedObject names no kind
KindlessEvent ==
    [Event("e3", None) EXCEPT !.involvedObject = Some([kind |-> None, name |-> Some("web-1")])]

SampleVersion == [major |-> "1", minor |-> "29", platform |-> None]
SampleNamespace == [name |-> Some("prod"), phase |-> Some("Active"),
                    creationTimestamp |-> SampleCreated]
SampleDeployment ==
    [namespace |-> Some("prod"), name |-> Some("web"), creationTimestamp |-> SampleCreated,
     readyReplicas |-> None, replicas |-> Some(2), updatedReplicas |-> Some(1),
     availableReplicas |-> None, images |-> Some(<<"app:1", "sidecar:2">>),
     strategy |-> None, conditions |-> None, labels |-> None, annotations |-> None]
SampleService ==
    [namespace |-> Some("prod"), name |-> Some("web"), creationTimestamp |-> SampleCreated,
     type |-> None, clusterIP |-> Some("10.0.0.1"),
     ports |-> Some(<<[port |-> 80, protocol |-> None]>>),
     ingress |-> Some(<<[ip |-> None, hostname |-> Some("lb.example")]>>)]
SampleNode ==
    [name |-> Some("node-1"), creationTimestamp |-> SampleCreated,
     labels |-> Some(<<[role |-> FALSE, rest |-> "kubernetes.io/hostname"],
                       [role |-> TRUE, rest |-> "control-plane"]>>),
     conditions |-> Some(<<[type |-> "Ready", status |-> "True", reason |-> None]>>),
     kubeletVersion |-> Some("v1.29.0"), osImage |-> None, architecture |-> Some("amd64"),
     podCIDR |-> None, taints |-> None,
     allocatable |-> Some([cpu |-> Some("4"), memory |-> Some("8Gi"), pods |-> None]),
     capacity |-> None]
SamplePVC ==
    [namespace |-> Some("prod"), name |-> Some("data"), creationTimestamp |-> SampleCreated,
     phase |-> Some("Bound"), volumeName |-> None, storage |-> Some("1Gi"),
     accessModes |-> Some(<<"ReadWriteOnce">>), storageClassName |-> None]
SampleCronJob ==
    [namespace |-> Some("prod"), name |-> Some("nightly"),
     creationTimestamp |-> SampleCreated, schedule |-> Some("0 0 * * *"),
     suspend |-> None, active |-> None, lastScheduleTime |-> None]
SampleJob ==
    [namespace |-> Some("prod"), name |-> Some("nightly-1"),
     creationTimestamp |-> SampleCreated, succeeded |-> Some(1), completions |-> None,
     startTime |-> Some(100000000), completionTime |-> Some(100001500),
     conditions |-> Some(<<[type |-> "Complete", status |-> "True"]>>)]
SampleIngressRoute ==
    [namespace |-> Some("prod"), name |-> Some("web"), creationTimestamp |-> SampleCreated,
     entryPoints |-> Some(<<"websecure">>),
     routes |-> Some(<<[match |-> Some("Host(web)"),
                        services |-> Some(<<[name |-> "web", port |-> "80"]>>)]>>)]
SampleApp ==
    [name |-> Some("web"), project |-> None, syncStatus |-> Some("Synced"),
     healthStatus |-> None, repoURL |-> Some("https://git.example/web"), path |-> None,
     targetRevision |-> None, destNamespace |-> Some("prod"), conditions |-> None,
     resources |-> None, history |-> None]
SampleScaledObject ==
    [namespace |-> Some("prod"), name |-> Some("web"), creationTimestamp |-> SampleCreated,
     targetKind |-> None, targetName |-> Some("web"), minReplicaCount |-> None,
     maxReplicaCount |-> None, triggers |-> Some(<<[type |-> "cpu"]>>),
     conditions |-> Some(<<[type |-> "Ready", status |-> Some("True")]>>)]
SampleVolume ==
    [name |-> Some("pvc-1"), state |-> Some("attached"), robustness |-> None,
     accessMode |-> Some("rwo"), size |-> Some("1073741824"), numberOfReplicas |-> None,
     ksNamespace |-> Some("prod"), pvcName |-> Some("data")]

\* One sample record of the kind a list call returns.
SampleOf(c) ==
    CASE c.api \in {"listNamespacedPod", "listPodForAllNamespaces"} -> SamplePodA
      [] c.api \in {"listNamespacedDeployment", "listDeploymentForAllNamespaces"} ->
            SampleDeployment
      [] c.api \in {"listNamespacedService", "listServiceForAllNamespaces"} -> SampleService
      [] c.api \in {"listNamespacedEvent", "listEventForAllNamespaces"} -> SampleEvents[1]
      [] c.api \in {"listNamespacedPersistentVolumeClaim",
                    "listPersistentVolumeClaimForAllNamespaces"} -> SamplePVC
      [] c.api \in {"listNamespacedCronJob", "listCronJobForAllNamespaces"} -> SampleCronJob
      [] c.api \in {"listNamespacedJob", "listJobForAllNamespaces"} -> SampleJob
      [] c.api = "listNode" -> SampleNode
      [] c.api = "listNamespace" -> SampleNamespace
      [] c.api \in {"listNamespacedCustomObject", "listClusterCustomObject"} ->
            CASE c.extra[3] = "ingressroutes" -> SampleIngressRoute
              [] c.extra[3] = "applications" -> SampleApp
              [] c.extra[3] = "scaledobjects" -> SampleScaledObject
              [] c.extra[3] = "volumes" -> SampleVolume

\* The bodies a call can resolve with in the dispatcher's specification.
SmallBodies(c) ==
    CASE c.api = "getCode" -> {SampleVersion}
      [] c.api = "readNamespacedPod" -> {SamplePodA}
      [] c.api = "readNamespacedPodLog" -> {"line 1"}
      [] c.api = "readNamespacedDeployment" -> {SampleDeployment}
      [] c.api = "readNode" -> {SampleNode}
      [] c.api = "getNamespacedCustomObject" -> {SampleApp}
      [] c.api \in {"listNamespacedPod", "listPodForAllNamespaces"} ->
            {Items(<<>>), Items(<<SamplePodA, SamplePodB>>)}
      [] c.api \in {"listNamespacedEvent", "listEventForAllNamespaces"} ->
            {Items(<<>>), Items(SampleEvents), Items(<<OrphanEvent>>), Items(<<KindlessEvent>>)}
      [] c.api \in {"listNamespacedCustomObject", "listClusterCustomObject"} ->
            {Items(None), Items(Some(<<SampleOf(c)>>))}
      [] OTHER -> {Items(<<>>), Items(<<SampleOf(c)>>)}

(***************************************************************************)
(* The dispatcher: every tool of the catalog and a name outside it, with   *)
(* and without a namespace, the tool listing and the health probe.         *)
(***************************************************************************)
UnknownNames == {"k8s_delete_pod"}
ToolNames == {tools[i].name : i \in 1..Len(tools)}

SpecNamespaces == {None, Some(""), Some("prod")}
SpecArgs == {Args(ns, nm, None) : ns \in SpecNamespaces, nm \in {None, Some("web-1")}}
SpecClock == {200000000, 200000250}

Next ==
    \/ \E name \in ToolNames \cup UnknownNames, a \in SpecArgs : CallTool(name, a)
    \/ ListTools
    \/ \E t0 \in SpecClock : HealthProbe(t0)
    \/ \E k \in InFlight, t \in SpecClock :
          \E body \in SmallBodies(reads[k].call) : RawResolve(k, body, t)
    \/ \E k \in InFlight, t \in SpecClock, e \in RawErrors : RawReject(k, e, t)
    \/ Respond

Spec == Init /\ [][Next]_vars

(***************************************************************************)
(* Properties of the dispatcher, checked under Spec.                       *)
(***************************************************************************)
\* the request being served is a tool call whose name is in the catalog
KnownCall == pc # "idle" /\ req.kind = "call" /\ FindTool(req.name).def
KnownDone == pc = "done" /\ KnownCall
Method == FindTool(req.name).v.method
FailedReads == {i \in 1..Len(reads) : reads[i].st = "err"}
EnvelopeText == envelope.content[1].text

CRDListMethods ==
    {"listIngressRoutes", "listArgoCDApps", "listScaledObjects", "listLonghornVolumes"}

RequiredMethods ==
    {"getClusterInfo", "listNamespaces", "listPods", "getPod", "getPodLogs",
     "getPodProblems", "listDeployments", "getDeployment", "listServices", "listNodes",
     "getNode", "listEvents", "listPVCs", "listCronJobs", "listJobs"}

NamespaceListMethods ==
    {"listPods", "getPodProblems", "listDeployments", "listServices", "listEvents",
     "listPVCs", "listCronJobs", "listJobs", "listIngressRoutes", "listScaledObjects"}

\* C1: a call of a catalog tool gets exactly one envelope, when the
\* handler is done and not before, and no exception escapes; the envelope is
\* error-flagged, its text the error as a string, exactly when execute
\* rejected, and carries the serialized value with no error flag otherwise.
\* Execute rejects when a raw read rejects in an operation other than the four
\* CRD listings (which catch it), or when the normalization itself throws.
C1_EnvelopeIffExecuteRejects ==
    /\ ~escaped
    /\ (KnownCall /\ pc = "awaiting") => envelope = NoEnvelope
    /\ KnownDone =>
        /\ envelope # NoEnvelope
        /\ IsError(envelope) <=> ~outcome.ok
        /\ outcome.ok =>
              /\ "isError" \notin DOMAIN envelope
              /\ Len(envelope.content) = 1
              /\ EnvelopeText = [json |-> outcome.val]
        /\ ~outcome.ok =>
              /\ Len(envelope.content) = 1
              /\ EnvelopeText = [str |-> outcome.err]
        /\ (FailedReads # {} /\ Method \notin CRDListMethods) => ~outcome.ok
        /\ ~outcome.ok =>
              \/ FailedReads # {} /\ Method \notin CRDListMethods
              \/ outcome.err = "TypeError"

C1_Witness ==
    /\ KnownDone
    /\ Method = "getDeployment"
    /\ FailedReads # {}
    /\ IsError(envelope)
    /\ EnvelopeText = [str |-> "Unauthorized"]

\* C2: a call whose name is not in the catalog gets an error-flagged result
\* naming the tool; nothing is thrown, no adapter method runs and no raw
\* cluster call is issued.
C2_UnknownToolIsLocalError ==
    (pc # "idle" /\ req.kind = "call" /\ req.name \notin ToolNames) =>
        /\ pc = "done"
        /\ IsError(envelope)
        /\ EnvelopeText = <<"Unknown tool: ", req.name>>
        /\ ~escaped
        /\ reads = <<>>
        /\ outcome = NoOutcome

C2_Witness ==
    /\ pc = "done"
    /\ req.kind = "call"
    /\ req.name = "k8s_delete_pod"
    /\ IsError(envelope)

\* C3: when the custom-object list call of a CRD listing fails, whatever the
\* failure, the operation resolves to the empty collection and the envelope
\* is not error-flagged.
C3_CRDListingSwallowsFailure ==
    (KnownDone /\ Method \in CRDListMethods /\ FailedReads # {}) =>
        /\ outcome = Resolved(<<>>)
        /\ ~IsError(envelope)
        /\ EnvelopeText = [json |-> <<>>]

C3_Witness ==
    /\ KnownDone
    /\ Method = "listLonghornVolumes"
    /\ reads[1].st = "err"
    /\ reads[1].val = "NotFound"
    /\ ~IsError(envelope)

\* C4: when a raw read of a non-CRD operation fails, the operation rejects
\* with the error of a failed read, unchanged, and only the dispatcher turns
\* it into an error result.
C4_RequiredFailurePropagates ==
    (KnownDone /\ Method \in RequiredMethods /\ FailedReads # {}) =>
        /\ ~outcome.ok
        /\ outcome.err \in {reads[i].val : i \in FailedReads}
        /\ Len(reads) = 1 => outcome.err = reads[1].val
        /\ IsError(envelope)
        /\ EnvelopeText = [str |-> outcome.err]

C4_Witness ==
    /\ KnownDone
    /\ Method = "getPod"
    /\ reads[1].st = "ok"
    /\ reads[2].st = "err"
    /\ outcome = Rejected("ETIMEDOUT")

NamespacedCalls == {i \in 1..Len(reads) : reads[i].call.api \in NamespacedListApis}
ClusterWideCalls == {i \in 1..Len(reads) : reads[i].call.api \in ClusterWideListApis}

\* the one raw call issued is the namespaced list for namespace ns
OneNamespacedCall(ns) ==
    /\ Len(reads) = 1
    /\ Cardinality(NamespacedCalls) = 1
    /\ ClusterWideCalls = {}
    /\ reads[1].call.ns = ns

OneClusterWideCall ==
    /\ Len(reads) = 1
    /\ Cardinality(ClusterWideCalls) = 1
    /\ NamespacedCalls = {}

\* the namespace-taking listings that return one record per raw item
UnfilteredListMethods ==
    {"listPods", "listDeployments", "listServices", "listPVCs", "listCronJobs", "listJobs"}

\* C5 as stated: a namespace present in the arguments, whatever its value,
\* gives exactly one namespaced raw call for it and no cluster-wide call; an
\* omitted namespace gives exactly one cluster-wide call.
C5_PresentMeansNamespaced ==
    (KnownCall /\ Method \in NamespaceListMethods) =>
        IF req.args.namespace.def THEN OneNamespacedCall(req.args.namespace.v)
        ELSE OneClusterWideCall

\* C5 (amended): a non-empty namespace in the arguments gives exactly one
\* namespaced raw call for it and no cluster-wide call; an omitted or empty
\* namespace gives exactly one cluster-wide call and no namespaced call; the
\* collection returned has one record per item of that one call's body.
C5_NonEmptyMeansNamespaced ==
    (KnownCall /\ Method \in NamespaceListMethods) =>
        /\ IF req.args.namespace.def /\ req.args.namespace.v # ""
           THEN OneNamespacedCall(req.args.namespace.v)
           ELSE OneClusterWideCall
        /\ (pc = "done" /\ outcome.ok /\ Method \in UnfilteredListMethods) =>
              Len(outcome.val) = Len(reads[1].val.items)

C5_Witness ==
    /\ KnownDone
    /\ Method = "listScaledObjects"
    /\ req.args.namespace = Some("prod")
    /\ reads[1].call.api = "listNamespacedCustomObject"
    /\ reads[1].call.ns = "prod"

(***************************************************************************)
(* The pod operations: the pod tools over every pod the bounds allow.      *)
(***************************************************************************)
MaxContainers == 2

Phases == {None, Some("Running"), Some("Succeeded"), Some("Failed"), Some("Pending"),
           Some("Unknown")}
ReadyValues == {None, Some(TRUE), Some(FALSE)}
RestartCounts == {None, Some(0), Some(5), Some(6)}
ContainerRecords == {Container(r, n) : r \in ReadyValues, n \in RestartCounts}

\* the sequences over S of length at most n
SeqsUpTo(S, n) == UNION {[1..k -> S] : k \in 0..n}

ContainerLists == {None} \cup {Some(cs) : cs \in SeqsUpTo(ContainerRecords, MaxContainers)}
PodRecords(name) == {Pod(name, ph, cs) : ph \in Phases, cs \in ContainerLists}

\* the pods of the two-pod lists
FewContainerLists ==
    {None, Some(<<Container(Some(TRUE), Some(0))>>), Some(<<Container(Some(FALSE), Some(6))>>)}
FewPods(name) == {Pod(name, ph, cs) : ph \in Phases, cs \in FewContainerLists}

WebPods == PodRecords("web-1")

PodLists ==
    {<<>>} \cup {<<p>> : p \in WebPods}
           \cup {<<p, q>> : p \in FewPods("web-1"), q \in FewPods("web-2")}

PodListBodies == {Items(l) : l \in PodLists}
NoEvents == {Items(<<>>)}

PodBodies(c) ==
    CASE c.api = "readNamespacedPod" -> WebPods
      [] c.api = "listNamespacedEvent" -> NoEvents
      [] OTHER -> PodListBodies

PodTools == {"k8s_list_pods", "k8s_get_pod", "k8s_pod_problems"}
PodArgs == {Args(Some("prod"), Some("web-1"), None)}
PodClock == {200000000}

NextPods ==
    \/ \E name \in PodTools, a \in PodArgs : CallTool(name, a)
    \/ \E k \in InFlight, t \in PodClock :
          \E body \in PodBodies(reads[k].call) : RawResolve(k, body, t)
    \/ \E k \in InFlight, t \in PodClock, e \in RawErrors : RawReject(k, e, t)
    \/ Respond

SpecPods == Init /\ [][NextPods]_vars

(***************************************************************************)
(* Properties of the pod operations, checked under SpecPods.               *)
(***************************************************************************)
\* the container statuses of a raw pod, none when the collection is absent
StatusesOf(pod) == IF pod.containerStatuses.def THEN pod.containerStatuses.v ELSE <<>>

\* the classification in the words of the specification
ClaimProblem(pod) ==
    LET cs == StatusesOf(pod)
        failing == pod.phase.def /\ pod.phase.v \in {"Failed", "Pending", "Unknown"}
        alive == pod.phase.def /\ pod.phase.v \in {"Running", "Succeeded"}
        restarting == \E i \in 1..Len(cs) :
                         cs[i].restartCount.def /\ cs[i].restartCount.v > 5
        unready == \E i \in 1..Len(cs) : ~(cs[i].ready.def /\ cs[i].ready.v)
    IN  failing \/ (alive /\ (restarting \/ (unready /\ pod.phase.v = "Running")))

\* C6: getPodProblems returns a record for a pod of the raw list exactly when
\* its phase is Failed, Pending or Unknown, or its phase is Running or
\* Succeeded and some container restarted more than 5 times or (the phase
\* being Running) some container is not ready; the records keep the raw order.
C6_ProblemIffClassified ==
    (KnownDone /\ Method = "getPodProblems" /\ outcome.ok) =>
        LET items == reads[1].val.items
            problems == SelectSeq(items, ClaimProblem)
        IN  /\ Len(outcome.val) = Len(problems)
            /\ \A j \in 1..Len(problems) : outcome.val[j].name = problems[j].name.v
            /\ \A i \in 1..Len(items) :
                  ClaimProblem(items[i]) <=>
                      \E j \in 1..Len(outcome.val) : outcome.val[j].name = items[i].name.v

\* a Running pod with one ready container at restartCount 6 is reported
C6_Witness ==
    /\ KnownDone
    /\ Method = "getPodProblems"
    /\ outcome.ok
    /\ Len(reads[1].val.items) = 1
    /\ reads[1].val.items[1].phase = Some("Running")
    /\ reads[1].val.items[1].containerStatuses = Some(<<Container(Some(TRUE), Some(6))>>)
    /\ Len(outcome.val) = 1
    /\ outcome.val[1].name = "web-1"

\* reading a rendered number back
IsDigits(s) == Len(s) > 0 /\ \A i \in 1..Len(s) : \E d \in 1..10 : DigitChars[d] = s[i]
DigitValue(ch) == (CHOOSE d \in 1..10 : DigitChars[d] = ch) - 1

RECURSIVE ParseNat(_)
ParseNat(s) ==
    IF Len(s) = 0 THEN 0
    ELSE 10 * ParseNat(SubSeq(s, 1, Len(s) - 1)) + DigitValue(s[Len(s)])

\* text is digits, a slash, digits, and reads as k/n
IsRatio(text, k, n) ==
    \E i \in 1..Len(text) :
        /\ text[i] = "/"
        /\ IsDigits(SubSeq(text, 1, i - 1))
        /\ IsDigits(SubSeq(text, i + 1, Len(text)))
        /\ ParseNat(SubSeq(text, 1, i - 1)) = k
        /\ ParseNat(SubSeq(text, i + 1, Len(text))) = n

ReadyContainers(cs) == {i \in 1..Len(cs) : cs[i].ready.def /\ cs[i].ready.v}

RECURSIVE RestartTotal(_)
RestartTotal(cs) ==
    IF Len(cs) = 0 THEN 0
    ELSE (IF cs[1].restartCount.def THEN cs[1].restartCount.v ELSE 0)
            + RestartTotal(Tail(cs))

\* rec is the record returned for the raw pod
CountsOf(pod, rec) ==
    LET cs == StatusesOf(pod)
    IN  /\ IsRatio(rec.ready, Cardinality(ReadyContainers(cs)), Len(cs))
        /\ rec.restarts = RestartTotal(cs)
        /\ Len(cs) = 0 => (rec.ready = <<"0", "/", "0">> /\ rec.restarts = 0)

\* C10: in listPods and in getPod, ready is "k/n", n the number of container
\* statuses and k the number of ready ones, restarts is the sum of the
\* restart counts, an absent count being 0; a pod whose container statuses
\* are absent or empty gives "0/0" and 0, and the operation does not fail.
C10_ReadyAndRestarts ==
    /\ (KnownDone /\ Method = "listPods" /\ FailedReads = {}) =>
          /\ outcome.ok
          /\ Len(outcome.val) = Len(reads[1].val.items)
          /\ \A i \in 1..Len(outcome.val) :
                CountsOf(reads[1].val.items[i], outcome.val[i])
    /\ (KnownDone /\ Method = "getPod" /\ FailedReads = {}) =>
          /\ outcome.ok
          /\ CountsOf(reads[1].val, outcome.val)

\* getPod of a pod with two containers, one of them ready
C10_Witness ==
    /\ KnownDone
    /\ Method = "getPod"
    /\ outcome.ok
    /\ reads[1].val.containerStatuses =
          Some(<<Container(Some(TRUE), Some(5)), Container(None, None)>>)
    /\ outcome.val.ready = <<"1", "/", "2">>
    /\ outcome.val.restarts = 5

(***************************************************************************)
(* The age rendering: the namespace listing over creation instants around  *)
(* every boundary of age, the evaluation time being the clock of the       *)
(* process and the instant the clock of the cluster.                       *)
(***************************************************************************)
MaxHalfHours == 50

AgeClock == {1000000000, 1000000250}
AgeDeltas ==
    {-90000000, -3600001, -60000, -1000, -1, 0, 1, 59999, 60000, 60001, 3599999,
     3600000, 3600001, 86399999, 86400000, 86400001, 90000000, 172800000, 950400000}
        \cup {k * 1800000 : k \in 0..MaxHalfHours}
AgeInstants == {None} \cup {Some(1000000000 - d) : d \in AgeDeltas}
AgeBodies ==
    {Items(<<[name |-> Some("prod"), phase |-> Some("Active"), creationTimestamp |-> c]>>) :
        c \in AgeInstants}
AgeArgs == {Args(None, None, None)}

NextAge ==
    \/ \E a \in AgeArgs : CallTool("k8s_list_namespaces", a)
    \/ \E k \in InFlight, t \in AgeClock : \E body \in AgeBodies : RawResolve(k, body, t)
    \/ \E k \in InFlight, t \in AgeClock, e \in RawErrors : RawReject(k, e, t)
    \/ Respond

SpecAge == Init /\ [][NextAge]_vars

\* text is digits, the unit u
IsCount(text, u) ==
    /\ Len(text) > 1
    /\ text[Len(text)] = u
    /\ IsDigits(SubSeq(text, 1, Len(text) - 1))

\* text is digits, the unit u1, digits, the unit u2
IsTwoCounts(text, u1, u2) ==
    \E i \in 1..Len(text) :
        /\ IsCount(SubSeq(text, 1, i), u1)
        /\ IsCount(SubSeq(text, i + 1, Len(text)), u2)

\* C7: the age of a record created at t, evaluated at now, is digits d digits
\* h when now - t is at least a day, digits h digits m when it is at least an
\* hour and less than a day, digits m (no sign) in every other case, and
\* "unknown" when the creation instant is absent.
C7_AgeForm ==
    (KnownDone /\ Method = "listNamespaces" /\ outcome.ok) =>
        \A i \in 1..Len(outcome.val) :
            LET created == reads[1].val.items[i].creationTimestamp
                text == outcome.val[i].age
            IN  IF ~created.def THEN text = <<"u", "n", "k", "n", "o", "w", "n">>
                ELSE IF now - created.v >= 86400000 THEN IsTwoCounts(text, "d", "h")
                ELSE IF now - created.v >= 3600000 THEN IsTwoCounts(text, "h", "m")
                ELSE IsCount(text, "m")

(***************************************************************************)
(* The event listing: every short list of events over three instants and   *)
(* an absent one, lists around the default limit, and every limit around   *)
(* the lengths, negative ones included (the dispatcher passes the limit    *)
(* argument through as it came).                                           *)
(***************************************************************************)
MaxEvents == 3

\* three instants, the first the newest and the second the oldest
EventInstants == <<100180000, 100060000, 100120000>>
T1 == EventInstants[1]
T2 == EventInstants[2]
T3 == EventInstants[3]
EventTimes == {None, Some(T1), Some(T2), Some(T3)}

\* events are named by their place in the raw list
EventName(i) == <<"e">> \o NumStr(i)

ShortEventLists ==
    UNION {{[i \in 1..k |-> Event(EventName(i), ts[i])] : ts \in [1..k -> EventTimes]} :
              k \in 0..MaxEvents}
LongEventLists ==
    {[i \in 1..n |-> Event(EventName(i), Some(T2 + (i % 3) * 60000))] :
        n \in (DefaultEventLimit - 1)..(DefaultEventLimit + 2)}
EventBodies == {Items(l) : l \in ShortEventLists \cup LongEventLists}

EventLimits ==
    {None, Some(DefaultEventLimit + 1)} \cup {Some(l) : l \in (-2)..(MaxEvents + 1)}
EventArgs == {Args(Some("prod"), None, l) : l \in EventLimits}
EventClock == {200000000}

NextEvents ==
    \/ \E a \in EventArgs : CallTool("k8s_list_events", a)
    \/ \E k \in InFlight, t \in EventClock : \E body \in EventBodies : RawResolve(k, body, t)
    \/ \E k \in InFlight, t \in EventClock, e \in RawErrors : RawReject(k, e, t)
    \/ Respond

SpecEvents == Init /\ [][NextEvents]_vars

EventsDone == KnownDone /\ Method = "listEvents" /\ outcome.ok
RawEvents == reads[1].val.items

\* the place in the raw list of the event a returned record is for
RawIndex(rec) == CHOOSE i \in 1..Len(RawEvents) : RawEvents[i].name.v = rec.name

\* the last-observed instant of raw event i, the epoch when it has none
TimeOf(i) == IF RawEvents[i].lastTimestamp.def THEN RawEvents[i].lastTimestamp.v ELSE 0

\* raw event i comes before raw event j newest first, ties in raw order
Before(i, j) == TimeOf(i) > TimeOf(j) \/ (TimeOf(i) = TimeOf(j) /\ i < j)

\* C8: the records of listEvents are newest first by last-observed instant
\* (an event without one counting as the oldest), events with equal instants
\* keep their raw order, and the records are a prefix of the raw events so
\* ordered: every event left out comes after every event returned.
C8_NewestFirstStablePrefix ==
    EventsDone =>
        LET out == outcome.val
            kept == {RawIndex(out[j]) : j \in 1..Len(out)}
        IN  /\ \A j \in 1..Len(out) :
                  \E i \in 1..Len(RawEvents) : RawEvents[i].name.v = out[j].name
            /\ Cardinality(kept) = Len(out)
            /\ \A j, k \in 1..Len(out) :
                  j < k => /\ TimeOf(RawIndex(out[j])) >= TimeOf(RawIndex(out[k]))
                           /\ Before(RawIndex(out[j]), RawIndex(out[k]))
            /\ \A i \in (1..Len(RawEvents)) \ kept : \A x \in kept : Before(x, i)

\* raw instants t1 > t3 > t2 in the order t1, t2, t3 come out as t1, t3, t2
C8_Witness ==
    /\ EventsDone
    /\ Len(RawEvents) = 3
    /\ RawEvents[1].lastTimestamp = Some(T1)
    /\ RawEvents[2].lastTimestamp = Some(T2)
    /\ RawEvents[3].lastTimestamp = Some(T3)
    /\ T1 > T3 /\ T3 > T2
    /\ Len(outcome.val) = 3
    /\ outcome.val[1].name = EventName(1)
    /\ outcome.val[2].name = EventName(3)
    /\ outcome.val[3].name = EventName(2)

Min(a, b) == IF a < b THEN a ELSE b
Max(a, b) == IF a > b THEN a ELSE b

\* C9: for n raw events and a limit passed through k8s_list_events,
\* listEvents returns at most limit records, exactly min(limit, n) of them
\* (none for a limit below zero), and at most 50, exactly min(50, n), when
\* the limit is omitted.
C9_AtMostLimit ==
    EventsDone =>
        LET n == Len(RawEvents)
            limit == req.args.limit
        IN  IF limit.def
            THEN /\ Len(outcome.val) <= Max(limit.v, 0)
                 /\ Len(outcome.val) = Min(Max(limit.v, 0), n)
            ELSE /\ Len(outcome.val) <= 50
                 /\ Len(outcome.val) = Min(50, n)

(***************************************************************************)
(* The container states: pod detail over every combination of presence of  *)
(* the running, waiting and terminated sub-objects of a container status.  *)
(***************************************************************************)
MaxStatuses == 2

WaitingValues ==
    {None, Some([reason |-> Some("CrashLoopBackOff"), message |-> None]),
     Some([reason |-> None, message |-> None])}
TerminatedValues == {None, Some([reason |-> Some("OOMKilled")]), Some([reason |-> None])}

StateContainers ==
    {[name |-> "app", image |-> "app:1", ready |-> Some(r), restartCount |-> Some(0),
      running |-> r, waiting |-> w, terminated |-> x] :
        r \in BOOLEAN, w \in WaitingValues, x \in TerminatedValues}

StatePods ==
    {Pod("web-1", Some("Running"), Some(cs)) : cs \in SeqsUpTo(StateContainers, MaxStatuses)}

StateBodies(c) ==
    CASE c.api = "readNamespacedPod" -> StatePods
      [] OTHER -> NoEvents

NextContainers ==
    \/ \E a \in PodArgs : CallTool("k8s_get_pod", a)
    \/ \E k \in InFlight, t \in PodClock :
          \E body \in StateBodies(reads[k].call) : RawResolve(k, body, t)
    \/ \E k \in InFlight, t \in PodClock, e \in RawErrors : RawReject(k, e, t)
    \/ Respond

SpecContainers == Init /\ [][NextContainers]_vars

PodDone == KnownDone /\ Method = "getPod" /\ outcome.ok

\* C11: in getPod the state of a container is decided by the first present
\* of running, waiting, terminated, in that order, and is "unknown" when none
\* is present (running and waiting both present give "running"); reason is
\* that of the waiting or terminated sub-object that decided the state and is
\* absent for running and unknown.
C11_FirstPresentDecidesState ==
    PodDone =>
        LET cs == StatusesOf(reads[1].val)
            out == outcome.val.containers
        IN  /\ Len(out) = Len(cs)
            /\ \A i \in 1..Len(cs) :
                  /\ out[i].state \in {"running", "waiting", "terminated", "unknown"}
                  /\ out[i].state = "running" <=> cs[i].running
                  /\ out[i].state = "waiting" <=> (~cs[i].running /\ cs[i].waiting.def)
                  /\ out[i].state = "terminated" <=>
                        (~cs[i].running /\ ~cs[i].waiting.def /\ cs[i].terminated.def)
                  /\ out[i].state = "unknown" <=>
                        (~cs[i].running /\ ~cs[i].waiting.def /\ ~cs[i].terminated.def)
                  /\ out[i].state = "waiting" => out[i].reason = cs[i].waiting.v.reason
                  /\ out[i].state = "terminated" =>
                        out[i].reason = cs[i].terminated.v.reason
                  /\ out[i].state \in {"running", "unknown"} => ~out[i].reason.def

\* a status with running and waiting both present comes out as running
C11_Witness ==
    /\ PodDone
    /\ Len(StatusesOf(reads[1].val)) = 1
    /\ StatusesOf(reads[1].val)[1].running
    /\ StatusesOf(reads[1].val)[1].waiting.def
    /\ StatusesOf(reads[1].val)[1].waiting.v.reason = Some("CrashLoopBackOff")
    /\ outcome.val.containers[1].state = "running"
    /\ ~outcome.val.containers[1].reason.def

(***************************************************************************)
(* Properties of the health probe, checked under Spec.  The clock of the   *)
(* process is taken not to step back between the two Date.now() of a probe *)
(* (the guard t >= start of RawSettle).                                    *)
(***************************************************************************)
HealthCall == pc # "idle" /\ req.kind = "health"
HealthDone == pc = "done" /\ req.kind = "health"

MaxLabels == 3

LabelKeys ==
    {[role |-> TRUE, rest |-> "control-plane"], [role |-> TRUE, rest |-> "etcd"],
     [role |-> TRUE, rest |-> "master"], [role |-> FALSE, rest |-> "kubernetes.io/hostname"],
     [role |-> FALSE, rest |-> "topology.kubernetes.io/zone"]}

\* the keys of an object are distinct
LabelLists ==
    {l \in SeqsUpTo(LabelKeys, MaxLabels) : \A i, j \in 1..Len(l) : i # j => l[i] # l[j]}

NodeRecords ==
    {[SampleNode EXCEPT !.labels = ls] : ls \in {None} \cup {Some(l) : l \in LabelLists}}

NodeBodies(c) ==
    CASE c.api = "readNode" -> NodeRecords
      [] OTHER -> {Items(<<>>)} \cup {Items(<<n>>) : n \in NodeRecords}

NodeTools == {"k8s_list_nodes", "k8s_get_node"}
NodeArgs == {Args(None, Some("node-1"), None)}

NextNodes ==
    \/ \E name \in NodeTools, a \in NodeArgs : CallTool(name, a)
    \/ \E k \in InFlight, t \in PodClock :
          \E body \in NodeBodies(reads[k].call) : RawResolve(k, body, t)
    \/ \E k \in InFlight, t \in PodClock, e \in RawErrors : RawReject(k, e, t)
    \/ Respond

SpecNodes == Init /\ [][NextNodes]_vars

\* the suffixes of the role keys of a raw node, in label-key order
RoleSuffixes(node) ==
    LET labels == IF node.labels.def THEN node.labels.v ELSE <<>>
        at == {i \in 1..Len(labels) : labels[i].role}
        nth(p) == CHOOSE i \in at : Cardinality({j \in at : j < i}) = p - 1
    IN  [p \in 1..Cardinality(at) |-> labels[nth(p)].rest]

\* text is the suffixes joined by commas, "worker" when there is none
IsRolesOf(text, suffixes) ==
    IF Len(suffixes) = 0 THEN text = <<"worker">>
    ELSE /\ Len(text) = 2 * Len(suffixes) - 1
         /\ \A p \in 1..Len(text) :
               text[p] = IF p % 2 = 1 THEN suffixes[(p + 1) \div 2] ELSE ","

\* C13: in listNodes and getNode, roles is the comma-joined suffixes of the
\* label keys that start with the role prefix, in label-key order, "worker"
\* when there is no such key (labels absent, empty or none matching), and
\* never the empty string.
C13_RolesFromLabels ==
    /\ (KnownDone /\ Method = "listNodes" /\ outcome.ok) =>
          /\ Len(outcome.val) = Len(reads[1].val.items)
          /\ \A i \in 1..Len(outcome.val) :
                /\ IsRolesOf(outcome.val[i].roles, RoleSuffixes(reads[1].val.items[i]))
                /\ ~IsEmptyText(outcome.val[i].roles)
    /\ (KnownDone /\ Method = "getNode" /\ outcome.ok) =>
          /\ IsRolesOf(outcome.val.roles, RoleSuffixes(reads[1].val))
          /\ ~IsEmptyText(outcome.val.roles)

\* a node with a hostname label between two role labels
C13_Witness ==
    /\ KnownDone
    /\ Method = "getNode"
    /\ outcome.ok
    /\ reads[1].val.labels =
          Some(<<[role |-> TRUE, rest |-> "etcd"],
                 [role |-> FALSE, rest |-> "kubernetes.io/hostname"],
                 [role |-> TRUE, rest |-> "control-plane"]>>)
    /\ outcome.val.roles = <<"etcd", ",", "control-plane">>

(***************************************************************************)
(* Frame properties, checked under Spec: every tool, the tool listing and  *)
(* the health probe, in every order of requests and of settlements.        *)
(***************************************************************************)
\* the methods of the cluster client that read and change nothing
ReadOnlyMethods ==
    {"getCode", "listNode", "listNamespace", "readNode",
     "listPodForAllNamespaces", "listNamespacedPod", "readNamespacedPod",
     "readNamespacedPodLog", "listNamespacedEvent", "listEventForAllNamespaces",
     "listDeploymentForAllNamespaces", "listNamespacedDeployment",
     "readNamespacedDeployment", "listServiceForAllNamespaces", "listNamespacedService",
     "listPersistentVolumeClaimForAllNamespaces", "listNamespacedPersistentVolumeClaim",
     "listCronJobForAllNamespaces", "listNamespacedCronJob", "listJobForAllNamespaces",
     "listNamespacedJob", "listClusterCustomObject", "listNamespacedCustomObject",
     "getNamespacedCustomObject"}

\* C14: every raw client call issued for a tool invocation or a health probe,
\* whatever the arguments and the order, is a read (list, read, get); none
\* creates, updates, patches or deletes.
C14_OnlyReads ==
    \A i \in 1..Len(reads) : reads[i].call.api \in ReadOnlyMethods

\* the one application read of k8s_get_argocd_app has been issued and answered
C14_Witness ==
    /\ KnownDone
    /\ Method = "getArgoCDApp"
    /\ Len(reads) = 1
    /\ reads[1].call.api = "getNamespacedCustomObject"
    /\ reads[1].st = "ok"

\* C15: a tool-listing request is answered at once with the name, the
\* description and the input shape of every tool, in catalog order, and with
\* nothing else; no execute runs and no raw call is issued, so the answer
\* does not depend on the cluster.
C15_ListingRunsNothing ==
    (pc # "idle" /\ req.kind = "list") =>
        /\ pc = "done"
        /\ reads = <<>>
        /\ outcome = NoOutcome
        /\ ~escaped
        /\ DOMAIN envelope = {"tools"}
        /\ Len(envelope.tools) = Len(tools)
        /\ Len(envelope.tools) = 20
        /\ \A i \in 1..Len(tools) :
              /\ DOMAIN envelope.tools[i] = {"name", "description", "inputSchema"}
              /\ envelope.tools[i].name = tools[i].name
              /\ envelope.tools[i].description = tools[i].description
              /\ envelope.tools[i].inputSchema = tools[i].inputSchema

C15_Witness ==
    /\ pc = "done"
    /\ req.kind = "list"
    /\ envelope.tools[1].name = "k8s_cluster_info"
    /\ envelope.tools[12].name = "k8s_list_events"
    /\ envelope.tools[20].name = "k8s_list_longhorn_volumes"
    /\ reads = <<>>

(***************************************************************************)
(* Progress.  The raw client settles every call it was given: a read that  *)
(* is in flight is eventually resolved or rejected.  No operation issues   *)
(* more reads than getClusterInfo does.                                    *)
(***************************************************************************)
ReadSlots == DOMAIN getClusterInfo_calls

RawCallsSettle == \A k \in ReadSlots : []<>(k \notin InFlight)

SpecLive == Init /\ [][Next]_vars /\ RawCallsSettle

C17_OnlyRawFailuresReject ==
    (KnownDone /\ ~outcome.ok) => FailedReads # {}

\* C18: in every event summary listEvents returns, involvedObject is text
\* built from values that are defined: it never holds text rendered from an
\* undefined value.
C18_InvolvedObjectDefined ==
    (KnownDone /\ Method = "listEvents" /\ outcome.ok) =>
        \A i \in 1..Len(outcome.val) :
            \A j \in 1..Len(outcome.val[i].involvedObject) :
                outcome.val[i].involvedObject[j] # "undefined"

(***************************************************************************)
(* The operations that join several reads, checked under Spec.             *)
(***************************************************************************)
JointMethods == {"getClusterInfo", "getPod"}

ApisOf(rs) == [i \in 1..Len(rs) |-> rs[i].call.api]

\* the raw client can still settle read k
CanSettle(k) ==
    /\ ENABLED (\E body \in SmallBodies(reads[k].call), t \in SpecClock :
                    RawResolve(k, body, t))
    /\ ENABLED (\E e \in RawErrors, t \in SpecClock : RawReject(k, e, t))

\* C19: getClusterInfo has its four reads and getPod its two reads (the pod,
\* and the events of the namespace filtered by the pod's name) issued
\* together from the start; the operation rejects as soon as one of them has
\* rejected, so no partial result is returned; and the reads still in flight
\* then stay in flight: the client may yet resolve or reject them.
C19_JointReads ==
    /\ (KnownCall /\ Method = "getClusterInfo") =>
            ApisOf(reads) =
                <<"getCode", "listNode", "listNamespace", "listPodForAllNamespaces">>
    /\ (KnownCall /\ Method = "getPod") =>
            /\ ApisOf(reads) = <<"readNamespacedPod", "listNamespacedEvent">>
            /\ reads[2].call.ns = reads[1].call.ns
            /\ reads[2].call.extra = <<"involvedObject.name=", reads[1].call.name>>
    /\ (KnownCall /\ Method \in JointMethods /\ FailedReads # {}) =>
            /\ pc = "done"
            /\ ~outcome.ok
            /\ IsError(envelope)
    /\ (KnownCall /\ Method \in JointMethods) =>
            \A k \in InFlight : CanSettle(k)

\* getPod has rejected on its event read while its pod read is in flight
C19_Witness ==
    /\ KnownDone
    /\ Method = "getPod"
    /\ InFlight = {1}
    /\ reads[2].st = "err"
    /\ CanSettle(1)
    /\ ~outcome.ok
    /\ IsError(envelope)

\* the body the read of the raw method api resolved with
BodyOf(api) == reads[CHOOSE i \in 1..Len(reads) : reads[i].call.api = api].val

AllResolved == \A i \in 1..Len(reads) : reads[i].st = "ok"

\* C20: once all reads of getClusterInfo or getPod have resolved, in whatever
\* order, each part of the result is the one computed from the response of
\* its own read: the version from the version read, each count from its own
\* list, the pod's fields from the pod read, the events from the event read.
C20_EachFieldFromItsOwnRead ==
    /\ (KnownDone /\ Method = "getClusterInfo" /\ AllResolved) =>
            /\ outcome.ok
            /\ outcome.val.serverVersion =
                    <<BodyOf("getCode").major, ".", BodyOf("getCode").minor>>
            /\ outcome.val.nodeCount = Len(BodyOf("listNode").items)
            /\ outcome.val.namespaceCount = Len(BodyOf("listNamespace").items)
            /\ outcome.val.podCount = Len(BodyOf("listPodForAllNamespaces").items)
    /\ (KnownDone /\ Method = "getPod" /\ AllResolved) =>
            /\ outcome.ok
            /\ outcome.val.status = OrElse(BodyOf("readNamespacedPod").phase, "Unknown")
            /\ Len(outcome.val.containers) =
                    Len(OrElse(BodyOf("readNamespacedPod").containerStatuses, <<>>))
            /\ Len(outcome.val.events) =
                    Min(Len(BodyOf("listNamespacedEvent").items), PodEventLimit)

\* a cluster summary whose three counts differ from one another
C20_Witness ==
    /\ KnownDone
    /\ Method = "getClusterInfo"
    /\ AllResolved
    /\ outcome.ok
    /\ outcome.val.nodeCount = 1
    /\ outcome.val.namespaceCount = 0
    /\ outcome.val.podCount = 2

(***************************************************************************)
(* No retries, checked under Spec.                                         *)
(***************************************************************************)
\* the number of raw calls one run of the adapter method m issues
CallsOf(m) == IF m = "getClusterInfo" THEN 4 ELSE IF m = "getPod" THEN 2 ELSE 1

\* C21: from the step that receives it to its answer and after, an
\* invocation or health probe has the fixed number of reads of its operation
\* (4 for cluster info and health, 2 for pod detail, 1 otherwise), no raw
\* method among them twice: a failed read is not issued again.
C21_EachReadIssuedOnce ==
    /\ HealthCall => Len(reads) = CallsOf("getClusterInfo")
    /\ KnownCall => Len(reads) = CallsOf(Method)
    /\ \A i, j \in 1..Len(reads) : reads[i].call.api = reads[j].call.api => i = j

\* a CRD listing answered after the failure of its one read
C21_Witness ==
    /\ KnownDone
    /\ Method = "listScaledObjects"
    /\ Len(reads) = 1
    /\ FailedReads = {1}
    /\ outcome = Resolved(<<>>)

(***************************************************************************)
(* Two invocations served at the same time, each a pod detail, a listing   *)
(* of ArgoCD applications or a listing of events, their raw reads settling *)
(* in any interleaving.                                                    *)
(***************************************************************************)
PairTools == {"k8s_get_pod", "k8s_list_argocd_apps", "k8s_list_events"}
PairErrors == {"ETIMEDOUT"}

NextPair ==
    \/ \E name \in PairTools, a \in PodArgs : CallTool(name, a)
    \/ \E k \in InFlight, t \in SpecClock :
          \E body \in SmallBodies(reads[k].call) : RawResolve(k, body, t)
    \/ \E k \in InFlight, t \in SpecClock, e \in PairErrors : RawReject(k, e, t)
    \/ Respond
    \/ \E name \in PairTools, a \in PodArgs : PeerCall(name, a)
    \/ \E k \in {i \in 1..Len(peer.reads) : peer.reads[i].st = "pending"}, t \in SpecClock :
          \E body \in SmallBodies(peer.reads[k].call) : PeerResolve(k, body, t)
    \/ \E k \in {i \in 1..Len(peer.reads) : peer.reads[i].st = "pending"}, t \in SpecClock,
          e \in PairErrors : PeerReject(k, e, t)
    \/ PeerRespond

SpecPair == Init /\ [][NextPair]_vars

\* What the invocation of the tool name with arguments a answers when it is
\* served alone, its reads having settled as rs and Date.now() being t.
AloneOutcome(name, a, rs, t) == execute(FindTool(name).v, a, rs, t)

AloneEnvelope(name, a, rs, t) ==
    LET r == AloneOutcome(name, a, rs, t)
    IN  IF r.ok THEN SuccessResult(r.val) ELSE ErrorResult(r.err)

\* the reads rs hold at most one rejection: they settle the operation the
\* same way at the join and afterwards
OneJoin(rs) == Cardinality({i \in 1..Len(rs) : rs[i].st = "err"}) <= 1

NotedEvent(i, ts) == [Event(EventName(i), ts) EXCEPT !.message = Some(EventName(i))]

ShortPodEventLists ==
    UNION {{[i \in 1..k |-> NotedEvent(i, ts[i])] : ts \in [1..k -> EventTimes]} :
              k \in 0..MaxEvents}
LongPodEventLists ==
    {[i \in 1..n |-> NotedEvent(i, IF i % 4 = 0 THEN None
                                   ELSE Some(T2 + (i % 3) * 60000))] :
        n \in (PodEventLimit - 1)..(PodEventLimit + 2)}
PodEventItems == {Items(l) : l \in ShortPodEventLists \cup LongPodEventLists}

PodEventBodies(c) ==
    CASE c.api = "readNamespacedPod" -> {SamplePodA}
      [] OTHER -> PodEventItems

NextPodEvents ==
    \/ \E a \in PodArgs : CallTool("k8s_get_pod", a)
    \/ \E k \in InFlight, t \in PodClock :
          \E body \in PodEventBodies(reads[k].call) : RawResolve(k, body, t)
    \/ \E k \in InFlight, t \in PodClock, e \in RawErrors : RawReject(k, e, t)
    \/ Respond

SpecPodEvents == Init /\ [][NextPodEvents]_vars

RawPodEvents == reads[2].val.items

\* the place in the raw list of the event a PodEvent is for
PodRawIndex(rec) == CHOOSE i \in 1..Len(RawPodEvents) : RawPodEvents[i].message.v = rec.message

\* the last-observed instant of raw event i, the epoch when it has none
PodTimeOf(i) ==
    IF RawPodEvents[i].lastTimestamp.def THEN RawPodEvents[i].lastTimestamp.v ELSE 0

\* C23: the events of a pod detail are min(n, 10) of the n events the event
\* read returned, each a different one, newest first by last-observed
\* instant, and none left out is newer than one returned; an event without
\* an instant counts as the oldest.
C23_TenMostRecentNewestFirst ==
    PodDone =>
        LET out == outcome.val.events
            kept == {PodRawIndex(out[j]) : j \in 1..Len(out)}
        IN  /\ Len(out) <= 10
            /\ Len(out) = Min(Len(RawPodEvents), 10)
            /\ \A j \in 1..Len(out) :
                  \E i \in 1..Len(RawPodEvents) : RawPodEvents[i].message.v = out[j].message
            /\ Cardinality(kept) = Len(out)
            /\ \A j, k \in 1..Len(out) :
                  j < k => PodTimeOf(PodRawIndex(out[j])) >= PodTimeOf(PodRawIndex(out[k]))
            /\ \A i \in (1..Len(RawPodEvents)) \ kept :
                  \A x \in kept : PodTimeOf(x) >= PodTimeOf(i)

\* twelve raw events, three of them without an instant: the nine others
\* are returned before one of the three, and the raw order was not kept
C23_Witness ==
    /\ PodDone
    /\ Len(RawPodEvents) = 12
    /\ Len(outcome.val.events) = 10
    /\ PodTimeOf(PodRawIndex(outcome.val.events[9])) > 0
    /\ ~RawPodEvents[PodRawIndex(outcome.val.events[10])].lastTimestamp.def
    /\ PodRawIndex(outcome.val.events[1]) # 1

(***************************************************************************)
(* Pod logs: every combination of the optional arguments supplied or not,  *)
(* a tailLines and a sinceSeconds of 0 among the values supplied.          *)
(***************************************************************************)
LogTailLines == {None, Some(0), Some(1), Some(100), Some(500)}
LogSinceSeconds == {None, Some(0), Some(60)}
LogPrevious == {None, Some(FALSE), Some(TRUE)}
LogContainers == {None, Some("app")}

LogArgs ==
    {[Args(Some("prod"), Some("web-1"), None) EXCEPT
        !.container = c, !.tailLines = n, !.sinceSeconds = s, !.previous = p] :
        c \in LogContainers, n \in LogTailLines, s \in LogSinceSeconds, p \in LogPrevious}

LogTexts == {"", "line 1"}

NextLogs ==
    \/ \E a \in LogArgs : CallTool("k8s_get_pod_logs", a)
    \/ \E k \in InFlight, t \in PodClock : \E body \in LogTexts : RawResolve(k, body, t)
    \/ \E k \in InFlight, t \in PodClock, e \in RawErrors : RawReject(k, e, t)
    \/ Respond

SpecLogs == Init /\ [][NextLogs]_vars

LogsCall == KnownCall /\ Method = "getPodLogs"

\* C24: the one raw read of k8s_get_pod_logs is the log read of the named
\* pod; it is given tailLines 100 and previous false when the caller omits
\* them, and the caller's tailLines (0 included), sinceSeconds, previous and
\* container as they came otherwise; the result is {logs: the raw text}.
C24_LogOptionsAndResult ==
    LogsCall =>
        LET c == reads[1].call
            a == req.args
        IN  /\ Len(reads) = 1
            /\ c.api = "readNamespacedPodLog"
            /\ c.ns = a.namespace.v /\ c.name = a.name.v
            /\ c.extra.tailLines = (IF a.tailLines.def THEN a.tailLines.v ELSE 100)
            /\ c.extra.previous = (IF a.previous.def THEN a.previous.v ELSE FALSE)
            /\ c.extra.sinceSeconds = a.sinceSeconds
            /\ c.extra.container = a.container
            /\ (pc = "done" /\ reads[1].st = "ok") =>
                    outcome = Resolved([logs |-> reads[1].val])

\* logs asked for with tailLines 0 and nothing else, and answered
C24_Witness ==
    /\ LogsCall
    /\ pc = "done"
    /\ req.args.tailLines = Some(0)
    /\ reads[1].call.extra.tailLines = 0
    /\ ~req.args.previous.def
    /\ reads[1].call.extra.previous = FALSE
    /\ outcome = Resolved([logs |-> "line 1"])

(***************************************************************************)
(* Jobs: every list of up to MaxConditions conditions over Complete,       *)
(* Failed and another type, True and False, the conditions absent, and     *)
(* start and completion times present and absent.                          *)
(***************************************************************************)
MaxConditions == 2

JobConditions ==
    {[type |-> ty, status |-> st] :
        ty \in {"Complete", "Failed"}, st \in {"True", "False"}}
        \cup {[type |-> "Suspended", status |-> "True"]}
JobConditionLists == {None} \cup {Some(l) : l \in SeqsUpTo(JobConditions, MaxConditions)}

\* a start instant, and completions 0 s, 1.5 s and 42 s after it
JobStartTimes == {None, Some(100000000)}
JobCompletionTimes == {None, Some(100000000), Some(100001500), Some(100042000)}

JobRecords ==
    {[SampleJob EXCEPT !.conditions = c, !.startTime = s, !.completionTime = e] :
        c \in JobConditionLists, s \in JobStartTimes, e \in JobCompletionTimes}
JobBodies == {Items(<<j>>) : j \in JobRecords} \cup {Items(<<>>)}

NextJobs ==
    \/ \E a \in PodArgs : CallTool("k8s_list_jobs", a)
    \/ \E k \in InFlight, t \in PodClock : \E body \in JobBodies : RawResolve(k, body, t)
    \/ \E k \in InFlight, t \in PodClock, e \in RawErrors : RawReject(k, e, t)
    \/ Respond

SpecJobs == Init /\ [][NextJobs]_vars

JobsDone == KnownDone /\ Method = "listJobs" /\ outcome.ok

\* the job has a condition of type ty with status True
HasTrueCondition(job, ty) ==
    /\ job.conditions.def
    /\ \E k \in 1..Len(job.conditions.v) :
          job.conditions.v[k].type = ty /\ job.conditions.v[k].status = "True"

\* text is n followed by s, n the whole number of seconds nearest to ms
IsSecondsOf(text, ms) ==
    \E n \in 0..(ms \div 1000 + 1) :
        /\ text = NumStr(n) \o <<"s">>
        /\ 1000 * n - ms \in (-500)..500
        /\ ms % 1000 = 0 => 1000 * n = ms

\* C25: the status of a job is Complete when a condition Complete is True,
\* else Failed when a condition Failed is True, else Running; its duration
\* is present exactly when start and completion times both are, and is then
\* their difference in whole seconds.
C25_JobStatusAndDuration ==
    JobsDone =>
        /\ Len(outcome.val) = Len(reads[1].val.items)
        /\ \A i \in 1..Len(outcome.val) :
              LET job == reads[1].val.items[i]
                  rec == outcome.val[i]
              IN  /\ rec.status = IF HasTrueCondition(job, "Complete") THEN "Complete"
                                  ELSE IF HasTrueCondition(job, "Failed") THEN "Failed"
                                  ELSE "Running"
                  /\ rec.duration.def <=> (job.startTime.def /\ job.completionTime.def)
                  /\ rec.duration.def =>
                        IsSecondsOf(rec.duration.v, job.completionTime.v - job.startTime.v)

\* a job whose conditions say Failed, then Complete, both True, that ran 42 s
C25_Witness ==
    /\ JobsDone
    /\ Len(outcome.val) = 1
    /\ reads[1].val.items[1].conditions =
            Some(<<[type |-> "Failed", status |-> "True"],
                   [type |-> "Complete", status |-> "True"]>>)
    /\ outcome.val[1].status = "Complete"
    /\ outcome.val[1].duration = Some(<<"4", "2", "s">>)

(***************************************************************************)
(* The two ArgoCD operations under the same failure, checked under Spec.   *)
(***************************************************************************)
\* C26: when its one read fails, getArgoCDApp rejects with the error of the
\* read and the tool answers with an error-flagged envelope carrying it,
\* whereas listArgoCDApps resolves with the empty list and no error flag.
C26_AppDetailFailsListingDegrades ==
    /\ (KnownDone /\ Method = "getArgoCDApp" /\ FailedReads # {}) =>
            /\ outcome = Rejected(reads[1].val)
            /\ IsError(envelope)
            /\ EnvelopeText = [str |-> reads[1].val]
    /\ (KnownDone /\ Method = "listArgoCDApps" /\ FailedReads # {}) =>
            /\ outcome = Resolved(<<>>)
            /\ ~IsError(envelope)

\* the application is not there: the detail read fails with NotFound
C26_Witness ==
    /\ KnownDone
    /\ Method = "getArgoCDApp"
    /\ reads[1].call.api = "getNamespacedCustomObject"
    /\ reads[1].st = "err"
    /\ reads[1].val = "NotFound"
    /\ outcome = Rejected("NotFound")
    /\ IsError(envelope)

(***************************************************************************)
(* The catalog, checked under Spec.                                        *)
(***************************************************************************)
\* the methods of the K8sAdapter interface
K8sAdapterMethods ==
    {"getClusterInfo", "listNamespaces", "listPods", "getPod", "getPodLogs",
     "getPodProblems", "listDeployments", "getDeployment", "listServices", "listNodes",
     "getNode", "listEvents", "listPVCs", "listCronJobs", "listJobs", "listIngressRoutes",
     "listArgoCDApps", "getArgoCDApp", "listScaledObjects", "listLonghornVolumes"}

\* the adapter method each tool name stands for
OwnMethod ==
    [n \in ToolNames |->
        CASE n = "k8s_cluster_info" -> "getClusterInfo"
          [] n = "k8s_list_namespaces" -> "listNamespaces"
          [] n = "k8s_list_pods" -> "listPods"
          [] n = "k8s_get_pod" -> "getPod"
          [] n = "k8s_get_pod_logs" -> "getPodLogs"
          [] n = "k8s_pod_problems" -> "getPodProblems"
          [] n = "k8s_list_deployments" -> "listDeployments"
          [] n = "k8s_get_deployment" -> "getDeployment"
          [] n = "k8s_list_services" -> "listServices"
          [] n = "k8s_list_nodes" -> "listNodes"
          [] n = "k8s_get_node" -> "getNode"
          [] n = "k8s_list_events" -> "listEvents"
          [] n = "k8s_list_pvcs" -> "listPVCs"
          [] n = "k8s_list_cronjobs" -> "listCronJobs"
          [] n = "k8s_list_jobs" -> "listJobs"
          [] n = "k8s_list_ingress_routes" -> "listIngressRoutes"
          [] n = "k8s_list_argocd_apps" -> "listArgoCDApps"
          [] n = "k8s_get_argocd_app" -> "getArgoCDApp"
          [] n = "k8s_list_scaled_objects" -> "listScaledObjects"
          [] n = "k8s_list_longhorn_volumes" -> "listLonghornVolumes"
          [] OTHER -> "none"]

TwinPods ==
    {[Pod(n, ph, cs) EXCEPT !.nodeName = nd] :
        n \in {"web-1", "web-2"}, ph \in {None, Some("Running"), Some("Failed")},
        cs \in FewContainerLists \cup {Some(<<Container(None, None), Container(Some(TRUE), Some(5))>>)},
        nd \in {None, Some("node-1")}}
        \cup {[SamplePodA EXCEPT !.name = None], [SamplePodA EXCEPT !.namespace = None],
              [SamplePodA EXCEPT !.namespace = Some("dev")]}

TwinDeployments ==
    {[SampleDeployment EXCEPT !.name = Some(n), !.readyReplicas = r, !.replicas = k,
                              !.updatedReplicas = u, !.availableReplicas = v] :
        n \in {"web-1", "web"}, r \in {None, Some(1)}, k \in {None, Some(2)},
        u \in {None, Some(1)}, v \in {None, Some(2)}}

TwinNodes ==
    {[SampleNode EXCEPT !.name = n, !.labels = l, !.conditions = c,
                        !.kubeletVersion = v, !.osImage = v] :
        n \in {None, Some("node-1")},
        l \in {None, Some(<<[role |-> FALSE, rest |-> "kubernetes.io/hostname"]>>),
               Some(<<[role |-> TRUE, rest |-> "etcd"], [role |-> TRUE, rest |-> "master"]>>)},
        c \in {None, Some(<<[type |-> "Ready", status |-> "True", reason |-> None]>>),
               Some(<<[type |-> "Ready", status |-> "False", reason |-> None]>>)},
        v \in {None, Some("v1.29.0")}}

TwinListTools == {"k8s_list_pods", "k8s_list_deployments", "k8s_list_nodes"}
TwinDetailTools == {"k8s_get_pod", "k8s_get_deployment", "k8s_get_node"}

TwinBodies(c) ==
    CASE c.api = "listNamespacedPod" -> {Items(<<p>>) : p \in TwinPods}
      [] c.api = "listNamespacedDeployment" -> {Items(<<d>>) : d \in TwinDeployments}
      [] c.api = "listNode" -> {Items(<<n>>) : n \in TwinNodes}
      [] c.api = "readNamespacedPod" -> TwinPods
      [] c.api = "readNamespacedDeployment" -> TwinDeployments
      [] c.api = "readNode" -> TwinNodes
      [] OTHER -> NoEvents

NextTwin ==
    \/ \E name \in TwinListTools, a \in PodArgs : CallTool(name, a)
    \/ \E k \in InFlight, t \in PodClock :
          \E body \in TwinBodies(reads[k].call) : RawResolve(k, body, t)
    \/ \E k \in InFlight, t \in PodClock, e \in PairErrors : RawReject(k, e, t)
    \/ Respond
    \/ \E name \in TwinDetailTools, a \in PodArgs : PeerCall(name, a)
    \/ \E k \in {i \in 1..Len(peer.reads) : peer.reads[i].st = "pending"}, t \in PodClock :
          \E body \in TwinBodies(peer.reads[k].call) : PeerResolve(k, body, t)
    \/ \E k \in {i \in 1..Len(peer.reads) : peer.reads[i].st = "pending"}, t \in PodClock,
          e \in PairErrors : PeerReject(k, e, t)
    \/ PeerRespond

SpecTwin == Init /\ [][NextTwin]_vars

\* the listing list and the detail detail have both answered, for the same
\* raw record
TwinDone(list, detail) ==
    /\ KnownDone /\ Method = list /\ outcome.ok
    /\ peer.pc = "done" /\ FindTool(peer.req.name).v.method = detail /\ peer.outcome.ok
    /\ reads[1].val.items[1] = peer.reads[1].val

\* the detail was asked for under the record's own namespace and name
AskedByOwnName ==
    /\ peer.reads[1].val.namespace = peer.req.args.namespace
    /\ peer.reads[1].val.name = peer.req.args.name

\* C28: for one raw record, the detail agrees with the entry of the listing:
\* deployments on ready, upToDate and available; nodes on name, status,
\* roles, version and os; pods on status, ready, restarts and node; and
\* pods and deployments on namespace and name as well, when the detail was
\* asked for under the record's own namespace and name.
C28_DetailAgreesWithListing ==
    /\ TwinDone("listDeployments", "getDeployment") =>
            LET s == outcome.val[1]
                d == peer.outcome.val
            IN  /\ s.ready = d.ready
                /\ s.upToDate = d.upToDate
                /\ s.available = d.available
                /\ AskedByOwnName =>
                        (d.namespace = Some(s.namespace) /\ d.name = Some(s.name))
    /\ TwinDone("listNodes", "getNode") =>
            LET s == outcome.val[1]
                d == peer.outcome.val
            IN  /\ s.name = d.name
                /\ s.status = d.status
                /\ s.roles = d.roles
                /\ s.version = d.version
                /\ s.os = d.os
    /\ TwinDone("listPods", "getPod") =>
            LET s == outcome.val[1]
                d == peer.outcome.val
            IN  /\ s.status = d.status
                /\ s.ready = d.ready
                /\ s.restarts = d.restarts
                /\ s.node = d.node
                /\ AskedByOwnName =>
                        (d.namespace = Some(s.namespace) /\ d.name = Some(s.name))

\* a deployment with two available replicas and no ready one, listed and read
C28_Witness ==
    /\ TwinDone("listDeployments", "getDeployment")
    /\ AskedByOwnName
    /\ peer.reads[1].val.availableReplicas = Some(2)
    /\ ~peer.reads[1].val.readyReplicas.def
    /\ outcome.val[1].available = 2
    /\ peer.outcome.val.available = 2

(***************************************************************************)
(* The pod listing or a pod detail served beside the problem report, over  *)
(* snapshots of up to two pods with distinct names.                        *)
(***************************************************************************)
SnapshotContainerLists ==
    {None, Some(<<Container(Some(FALSE), Some(6))>>),
     Some(<<Container(Some(TRUE), None), Container(None, Some(5))>>)}

SnapshotPods(name) ==
    {Pod(name, ph, cs) : ph \in {None, Some("Running"), Some("Failed"), Some("Pending")},
                         cs \in SnapshotContainerLists}

SnapshotLists ==
    {<<>>} \cup {<<p>> : p \in FewPods("web-1")}
           \cup {<<p, q>> : p \in SnapshotPods("web-1"), q \in SnapshotPods("web-2")}

SnapshotBodies(c) ==
    CASE c.api = "readNamespacedPod" -> FewPods("web-1") \cup SnapshotPods("web-1")
      [] c.api = "listNamespacedEvent" -> NoEvents
      [] OTHER -> {Items(l) : l \in SnapshotLists}

NextSnapshot ==
    \/ \E name \in {"k8s_list_pods", "k8s_get_pod"}, a \in PodArgs : CallTool(name, a)
    \/ \E k \in InFlight, t \in PodClock :
          \E body \in SnapshotBodies(reads[k].call) : RawResolve(k, body, t)
    \/ \E k \in InFlight, t \in PodClock, e \in PairErrors : RawReject(k, e, t)
    \/ Respond
    \/ \E a \in PodArgs : PeerCall("k8s_pod_problems", a)
    \/ \E k \in {i \in 1..Len(peer.reads) : peer.reads[i].st = "pending"}, t \in PodClock :
          \E body \in SnapshotBodies(peer.reads[k].call) : PeerResolve(k, body, t)
    \/ \E k \in {i \in 1..Len(peer.reads) : peer.reads[i].st = "pending"}, t \in PodClock,
          e \in PairErrors : PeerReject(k, e, t)
    \/ PeerRespond

SpecSnapshot == Init /\ [][NextSnapshot]_vars

\* the problem report has answered
ProblemsDone ==
    /\ peer.pc = "done"
    /\ FindTool(peer.req.name).v.method = "getPodProblems"
    /\ peer.outcome.ok

\* listPods and getPodProblems have both answered, for the same namespace
\* argument and the same snapshot of the pod list
SameSnapshot ==
    /\ KnownDone /\ Method = "listPods" /\ outcome.ok
    /\ ProblemsDone
    /\ req.args.namespace = peer.req.args.namespace
    /\ reads[1].val = peer.reads[1].val

SamePod(s, e) == s.namespace = e.namespace /\ s.name = e.name

\* C29: over one snapshot, every pod listPods reports as Failed, Pending or
\* Unknown (a pod without phase included) has an entry in getPodProblems, and
\* every entry of getPodProblems is a pod of the listing with the same
\* namespace, name and status.
C29_ProblemsMatchListing ==
    SameSnapshot =>
        LET listed == outcome.val
            problems == peer.outcome.val
        IN  /\ \A i \in 1..Len(listed) :
                  listed[i].status \in {"Failed", "Pending", "Unknown"} =>
                      \E j \in 1..Len(problems) : SamePod(listed[i], problems[j])
            /\ \A j \in 1..Len(problems) :
                  \E i \in 1..Len(listed) :
                      SamePod(listed[i], problems[j]) /\ listed[i].status = problems[j].status

\* text reads as k/n with 0 <= k <= n
IsFraction(text) ==
    \E n \in 0..MaxContainers : \E k \in 0..n : IsRatio(text, k, n)

ReadyEntries(containers) == {i \in 1..Len(containers) : containers[i].ready = Some(TRUE)}

RECURSIVE RestartsSum(_)
RestartsSum(containers) ==
    IF Len(containers) = 0 THEN 0
    ELSE containers[1].restarts + RestartsSum(Tail(containers))

\* C30: the aggregates of a pod result agree with each other: ready reads
\* "k/n" with 0 <= k <= n in every entry of listPods and in getPod's result;
\* in getPod's result n is the number of containers, k the number of them
\* whose ready is true, and restarts the sum of their restarts; and
\* getPodProblems reports for a pod the restarts listPods reports for it.
C30_AggregatesConsistent ==
    /\ (KnownDone /\ Method = "listPods" /\ outcome.ok) =>
            \A i \in 1..Len(outcome.val) : IsFraction(outcome.val[i].ready)
    /\ PodDone =>
            LET d == outcome.val
            IN  /\ IsFraction(d.ready)
                /\ IsRatio(d.ready, Cardinality(ReadyEntries(d.containers)), Len(d.containers))
                /\ d.restarts = RestartsSum(d.containers)
    /\ SameSnapshot =>
            \A j \in 1..Len(peer.outcome.val) : \A i \in 1..Len(outcome.val) :
                SamePod(outcome.val[i], peer.outcome.val[j]) =>
                    outcome.val[i].restarts = peer.outcome.val[j].restarts

\* a failed pod with one ready container of two and five restarts, listed
\* and reported as a problem
C30_Witness ==
    /\ SameSnapshot
    /\ Len(outcome.val) = 2
    /\ outcome.val[2].ready = <<"1", "/", "2">>
    /\ outcome.val[2].restarts = 5
    /\ \E j \in 1..Len(peer.outcome.val) :
          /\ SamePod(outcome.val[2], peer.outcome.val[j])
          /\ peer.outcome.val[j].restarts = 5

====
